---- MODULE Spec2Model ----
(***************************************************************************)
(* Verification model of the kgo client core.                              *)
(*                                                                         *)
(*   - the direct-consumption assignment engine                            *)
(*     (directConsumer.findNewAssignments, consume_direct.go)              *)
(*   - the topic partitioners (pkg/kgo/partitioner.go)                     *)
(*                                                                         *)
(* Go maps are modelled as TLA+ functions whose DOMAIN is the key set; a   *)
(* Go map used as a set (map[K]struct{}) is modelled as a set.  Ranging    *)
(* over a Go map visits the keys in an unspecified order, which is         *)
(* modelled as a nondeterministic choice wherever the order can be seen.   *)
(***************************************************************************)
EXTENDS Integers, Sequences, FiniteSets, TLC

(***************************************************************************)
(* Bounds of the model.                                                    *)
(***************************************************************************)
\* partition ids range over 0..MaxPartition
MaxPartition == 2
\* at most MaxPins (topic, partition) pairs are pinned by ConsumePartitions
MaxPins == 1
\* the per-topic counter of regex tests saturates at MaxTests
MaxTests == 2

\* partition counts n handed to a partitioner range over 1..MaxN
MaxN == 3
\* the count of OnNewBatch calls since the last keyless decision saturates
\* at MaxBatches
MaxBatches == 2
\* buffered record counts of a partition are 0..MaxBuffered
MaxBuffered == 2
\* a record batch holds 0..MaxRecords records
MaxRecords == 2
\* NewClient gets 0..MaxSeeds seed brokers
MaxSeeds == 2

\* Topic names the cluster metadata can list.
TopicNames == {"ta"}
\* The keys the topic wishes can have: topic names in direct mode, (literal)
\* regular expressions in regex mode.
WishKeys == {"t", "ta", "b"}
Partitions == 0..MaxPartition
\* Starting offsets a wish or a pin can carry.
Offsets == {"earliest", "latest"}

\* The empty Go map.
EmptyMap == [k \in {} |-> 0]

\* All maps from a subset of keys to vals.
PartialMaps(keys, vals) == UNION {[d -> vals] : d \in SUBSET keys}

VARIABLES
    \* directConsumer configuration (set by the ConsumeOpts, then fixed)
    topics,         \* topic name or pattern -> Offset
    partitions,     \* topic -> partition -> Offset (explicit pins)
    regexTopics,    \* BOOLEAN
    \* directConsumer state
    reTopics,       \* memoized regex matches: topic -> Offset
    reIgnore,       \* memoized regex non-matches: set of topics
    using,          \* topic -> set of partitions already claimed
    \* observation of the last findNewAssignments call
    lastTopics,     \* the topology argument: topic -> set of visible partitions
    lastRet,        \* the return value: [nil |-> BOOLEAN, m |-> topic -> partition -> Offset]
    offered,        \* every (topic, partition) pair returned by an earlier call
    reoffered,      \* pairs returned by the last call that an earlier call had returned
    tests,          \* topic -> number of calls that ran the pattern list on it
    prevUsing,      \* d.using as the last call found it
    repeated        \* the last call got the topology of the call before it, and
                    \* the call before it had returned a delta

directVars == <<topics, partitions, regexTopics, reTopics, reIgnore, using,
                lastTopics, lastRet, offered, reoffered, tests, prevUsing, repeated>>

VARIABLES
    \* the topic partitioner made by ForTopic
    pKind,          \* "sticky" (stickyTopicPartitioner) or "stickyKey"
    lastPart,       \* stickyTopicPartitioner.lastPart
    onPart,         \* stickyTopicPartitioner.onPart
    \* observation of the last call on the topic partitioner
    pOp,            \* "none", "OnNewBatch" or "Partition"
    pKey,           \* the record key of the last Partition call
    pN,             \* the n of the last Partition call
    pRet,           \* the index the last Partition call returned
    prevOnPart,     \* onPart as the last call found it
    prevLastPart,   \* lastPart as the last call found it
    pPrevKeyed,     \* the call before the last one was a Partition of a keyed
                    \* record on the sticky-key partitioner
    pHasher,        \* keyPartitioner.hasher: "kafka" (the default) or "sarama"
    intBits,        \* the width of Go's int on the platform of the build
    batchesSince,   \* OnNewBatch calls since the last keyless decision
    prevBatches,    \* batchesSince as the last call found it
    pinBefore,      \* onPart as the first OnNewBatch since the last keyless
                    \* decision found it
    sameN           \* every Partition call so far was given the same n

partVars == <<pKind, lastPart, onPart, pOp, pKey, pN, pRet, prevOnPart,
              prevLastPart, pPrevKeyed, pHasher, intBits, batchesSince,
              prevBatches, pinBefore, sameN>>

VARIABLES
    \* leastBackupTopicPartitioner
    lbOnPart,       \* p.onPart
    \* the last call and its observation
    lbOp,           \* "none", "OnNewBatch", "PartitionByBackup" or "panic"
    lbPrevOp,       \* lbOp as the last call found it
    lbN,            \* n of the last PartitionByBackup
    lbCounts,       \* buffered count of each partition at that call
    lbRet,          \* what it returned
    lbCalls,        \* how many times it called backupFn
    lbPrevOnPart    \* p.onPart as the last call found it

lbVars == <<lbOnPart, lbOp, lbPrevOp, lbN, lbCounts, lbRet, lbCalls,
            lbPrevOnPart>>

VARIABLES
    \* the backup callback handed to a strategy for one decision
    lpInput,        \* the lpInput: [on, mapping]
    \* the last call and its observation
    lpOp,           \* "none", "new" or "next"
    lpCalls,        \* calls of next() on this lpInput that returned
    lpRet           \* result of the last next(): [panic, on, buffered]

lpVars == <<lpInput, lpOp, lpCalls, lpRet>>

VARIABLES
    \* a PartitionerHasher over some hashFn
    hvBits,         \* the width of int in the build: 32 or 64
    \* the last call and its observation
    hvOp,           \* "none", "KafkaHasher" or "SaramaHasher"
    hvHash,         \* what hashFn(key) returned, as four bytes
    hvN,            \* n
    hvRet           \* the partition returned

hvVars == <<hvBits, hvOp, hvHash, hvN, hvRet>>

VARIABLES
    \* one call of recordBatch.appendTo
    eBatch,         \* the sealed recordBatch r
    eDst,           \* dst as the caller passes it
    eCompressor,    \* the compressor: [nil, attrs]
    \* the last call and its observation
    eOp,            \* "none", "appendTo" or "panic"
    eCompressed,    \* what zipr.compress returned: [nil, bytes]
    eOut,           \* the slice returned
    \* the batch as it was sealed, and the call before the last
    eSealed,
    ePrevOp,
    ePrevCompressed,
    ePrevOut

encVars ==
    <<eBatch, eDst, eCompressor, eOp, eCompressed, eOut, eSealed, ePrevOp,
      ePrevCompressed, ePrevOut>>

VARIABLES
    \* one call of NewClient
    seedBrokers,    \* the seedBrokers argument, a string being its bytes
    \* the call and its observation
    ncOp,           \* "none" or "NewClient"
    ncRet           \* [panic, err, seedAddrs]: how the call ended

ncVars == <<seedBrokers, ncOp, ncRet>>

restVars == <<lbVars, lpVars, hvVars, encVars, ncVars>>

vars == <<directVars, partVars, restVars>>

(***************************************************************************)
(* regexp.MatchString(reTopic, topic) for the literal patterns of WishKeys:*)
(* an unanchored literal matches every string that contains it.  "t" and   *)
(* "ta" occur in "ta", "b" does not.                                       *)
(***************************************************************************)
MatchString(reTopic, topic) ==
    \/ reTopic = topic
    \/ reTopic = "t" /\ topic = "ta"

\* MatchingPatterns that takes every pattern as matching.
MatchingPatterns_All(d_topics, topic) == DOMAIN d_topics

\* The patterns of d.topics that match topic.
MatchingPatterns(d_topics, topic) ==
    {reTopic \in DOMAIN d_topics : MatchString(reTopic, topic)}

\* ResolveTopic that does not consult the cache of non-matches.
ResolveTopic_NoIgnore(d_topics, d_regexTopics, d_reTopics, d_reIgnore, topic, pick) ==
    IF d_regexTopics
    THEN IF topic \in DOMAIN d_reTopics
         THEN [useTopic |-> TRUE, useOffset |-> d_reTopics[topic], tested |-> FALSE,
               memo |-> "none"]
         ELSE IF MatchingPatterns(d_topics, topic) # {}
         THEN [useTopic |-> TRUE, useOffset |-> d_topics[pick], tested |-> TRUE,
               memo |-> "match"]
         ELSE [useTopic |-> FALSE, useOffset |-> "zero", tested |-> TRUE,
               memo |-> "ignore"]
    ELSE IF topic \in DOMAIN d_topics
         THEN [useTopic |-> TRUE, useOffset |-> d_topics[topic], tested |-> FALSE,
               memo |-> "none"]
         ELSE [useTopic |-> FALSE, useOffset |-> "zero", tested |-> FALSE,
               memo |-> "none"]

\* ResolveTopic that memoizes the outcome of the direct lookup as well.
ResolveTopic_MemoizesLookup(d_topics, d_regexTopics, d_reTopics, d_reIgnore, topic, pick) ==
    IF d_regexTopics
    THEN IF topic \in DOMAIN d_reTopics
         THEN [useTopic |-> TRUE, useOffset |-> d_reTopics[topic], tested |-> FALSE,
               memo |-> "none"]
         ELSE IF topic \in d_reIgnore
         THEN [useTopic |-> FALSE, useOffset |-> "zero", tested |-> FALSE,
               memo |-> "none"]
         ELSE IF MatchingPatterns(d_topics, topic) # {}
         THEN [useTopic |-> TRUE, useOffset |-> d_topics[pick], tested |-> TRUE,
               memo |-> "match"]
         ELSE [useTopic |-> FALSE, useOffset |-> "zero", tested |-> TRUE,
               memo |-> "ignore"]
    ELSE IF topic \in DOMAIN d_topics
         THEN [useTopic |-> TRUE, useOffset |-> d_topics[topic], tested |-> FALSE,
               memo |-> "match"]
         ELSE [useTopic |-> FALSE, useOffset |-> "zero", tested |-> FALSE,
               memo |-> "ignore"]

(***************************************************************************)
(* Lines 116-141: decide whether the topic is wanted and at which offset.  *)
(* pick is the pattern at which the range over d.topics stops, when one    *)
(* matches (Go leaves the iteration order of a map unspecified).           *)
(* Returns the new caches as well.                                         *)
(***************************************************************************)
ResolveTopic(d_topics, d_regexTopics, d_reTopics, d_reIgnore, topic, pick) ==
    IF d_regexTopics
    THEN IF topic \in DOMAIN d_reTopics
         THEN [useTopic |-> TRUE, useOffset |-> d_reTopics[topic], tested |-> FALSE,
               memo |-> "none"]
         ELSE IF topic \in d_reIgnore
         THEN [useTopic |-> FALSE, useOffset |-> "zero", tested |-> FALSE,
               memo |-> "none"]
         ELSE IF MatchingPatterns(d_topics, topic) # {}
         THEN [useTopic |-> TRUE, useOffset |-> d_topics[pick], tested |-> TRUE,
               memo |-> "match"]
         ELSE [useTopic |-> FALSE, useOffset |-> "zero", tested |-> TRUE,
               memo |-> "ignore"]
    ELSE IF topic \in DOMAIN d_topics
         THEN [useTopic |-> TRUE, useOffset |-> d_topics[topic], tested |-> FALSE,
               memo |-> "none"]
         ELSE [useTopic |-> FALSE, useOffset |-> "zero", tested |-> FALSE,
               memo |-> "none"]

\* The pins of a topic: d.partitions[topic], the empty map when there is none.
PinsOf(d_partitions, topic) ==
    IF topic \in DOMAIN d_partitions THEN d_partitions[topic] ELSE EmptyMap

\* StageTopic in which a pin makes every visible partition of the topic usable.
StageTopic_PinStagesVisible(useTopic, useOffset, visible, pins) ==
    LET all == IF useTopic \/ DOMAIN pins # {} THEN visible ELSE {}
    IN  [partition \in all \cup DOMAIN pins |->
            IF partition \in DOMAIN pins THEN pins[partition] ELSE useOffset]

\* StageTopic in which the topic-level offset wins over a pin.
StageTopic_TopicWins(useTopic, useOffset, visible, pins) ==
    LET all == IF useTopic THEN visible ELSE {}
    IN  [partition \in all \cup DOMAIN pins |->
            IF partition \in all THEN useOffset ELSE pins[partition]]

(***************************************************************************)
(* Lines 143-163: the partitions staged for one topic.  All visible        *)
(* partitions at the topic offset when the topic is wanted, then the pins  *)
(* on top.                                                                 *)
(***************************************************************************)
StageTopic(useTopic, useOffset, visible, pins) ==
    LET all == IF useTopic THEN visible ELSE {}
    IN  [partition \in all \cup DOMAIN pins |->
            IF partition \in DOMAIN pins THEN pins[partition] ELSE useOffset]

\* Lines 145-163: toUse[topic] is created when the topic is wanted or has a pin.
IsStaged(useTopic, pins) == useTopic \/ DOMAIN pins # {}

\* SubtractUsing without the partition-by-partition removal of lines 176-178.
SubtractUsing_NoDelete(toUse, d_using) ==
    LET dropped == {topic \in DOMAIN toUse \cap DOMAIN d_using :
                        Cardinality(d_using[topic]) = Cardinality(DOMAIN toUse[topic])}
    IN  [topic \in DOMAIN toUse \ dropped |-> toUse[topic]]

(***************************************************************************)
(* Lines 166-179: remove what is already in use.                           *)
(***************************************************************************)
SubtractUsing(toUse, d_using) ==
    LET dropped == {topic \in DOMAIN toUse \cap DOMAIN d_using :
                        Cardinality(d_using[topic]) = Cardinality(DOMAIN toUse[topic])}
    IN  [topic \in DOMAIN toUse \ dropped |->
            IF topic \in DOMAIN d_using
            THEN [partition \in DOMAIN toUse[topic] \ d_using[topic] |->
                        toUse[topic][partition]]
            ELSE toUse[topic]]

\* MergeUsing that leaves the using map as it is.
MergeUsing_Skip(d_using, toUse) == d_using

\* MergeUsing that replaces the using map by the new partitions.
MergeUsing_Replace(d_using, toUse) ==
    [topic \in DOMAIN toUse |-> DOMAIN toUse[topic]]

(***************************************************************************)
(* Lines 187-196: add the new partitions to the using map.                 *)
(***************************************************************************)
MergeUsing(d_using, toUse) ==
    [topic \in DOMAIN d_using \cup DOMAIN toUse |->
        (IF topic \in DOMAIN d_using THEN d_using[topic] ELSE {})
        \cup (IF topic \in DOMAIN toUse THEN DOMAIN toUse[topic] ELSE {})]

\* The (topic, partition) pairs of a topic -> partition -> Offset map.
PairsOf(m) == {<<topic, partition>> \in (DOMAIN m) \X Partitions :
                    partition \in DOMAIN m[topic]}

\* The (topic, partition) pairs of a topic -> set of partitions map.
PairsIn(s) == {<<topic, partition>> \in (DOMAIN s) \X Partitions :
                    partition \in s[topic]}

NilRet == [nil |-> TRUE, m |-> EmptyMap]

(***************************************************************************)
(* directConsumer.findNewAssignments(topology), lines 105-199.             *)
(***************************************************************************)
findNewAssignments(topology) ==
    \E picks \in [DOMAIN topology -> WishKeys] :
        /\ \A topic \in DOMAIN topology :
                IF /\ regexTopics
                   /\ topic \notin DOMAIN reTopics
                   /\ topic \notin reIgnore
                   /\ MatchingPatterns(topics, topic) # {}
                THEN picks[topic] \in MatchingPatterns(topics, topic)
                ELSE picks[topic] = topic
        /\ LET res == [topic \in DOMAIN topology |->
                          ResolveTopic(topics, regexTopics, reTopics, reIgnore,
                                       topic, picks[topic])]
               staged == {topic \in DOMAIN topology :
                            IsStaged(res[topic].useTopic, PinsOf(partitions, topic))}
               toUse0 == [topic \in staged |->
                            StageTopic(res[topic].useTopic, res[topic].useOffset,
                                       topology[topic], PinsOf(partitions, topic))]
               toUse == SubtractUsing(toUse0, using)
               matched == {topic \in DOMAIN topology : res[topic].memo = "match"}
               ignored == {topic \in DOMAIN topology : res[topic].memo = "ignore"}
           IN  /\ reTopics' = [topic \in DOMAIN reTopics \cup matched |->
                                 IF topic \in matched THEN res[topic].useOffset
                                 ELSE reTopics[topic]]
               /\ reIgnore' = reIgnore \cup ignored
               /\ tests' = [topic \in TopicNames |->
                              IF topic \in DOMAIN topology /\ res[topic].tested
                                 /\ tests[topic] < MaxTests
                              THEN tests[topic] + 1 ELSE tests[topic]]
               /\ lastTopics' = topology
               /\ prevUsing' = using
               /\ repeated' = (~lastRet.nil /\ topology = lastTopics)
               /\ IF DOMAIN toUse = {}
                  THEN /\ lastRet' = NilRet
                       /\ reoffered' = {}
                       /\ UNCHANGED <<using, offered>>
                  ELSE /\ using' = MergeUsing(using, toUse)
                       /\ lastRet' = [nil |-> FALSE, m |-> toUse]
                       /\ reoffered' = PairsOf(toUse) \cap offered
                       /\ offered' = offered \cup PairsOf(toUse)
        /\ UNCHANGED <<topics, partitions, regexTopics>>
        /\ UNCHANGED <<partVars, restVars>>

\* A topology: topic -> set of visible partitions.
Topologies == PartialMaps(TopicNames, SUBSET Partitions)

Reconcile == \E topology \in Topologies : findNewAssignments(topology)

(***************************************************************************)
(* The configurations a directConsumer can hold (lines 47-56).             *)
(***************************************************************************)
\* d.partitions after ConsumePartitions (lines 37-39), which keeps the map
\* of the caller as it is: topic -> partition -> Offset, a topic with no
\* partition included.
PinMaps ==
    UNION {{m \in [ts -> PartialMaps(Partitions, Offsets)] :
                Cardinality(PairsOf(m)) <= MaxPins} : ts \in SUBSET TopicNames}

\* d.topics after ConsumeTopics (lines 21-28): the last such option makes
\* the map anew and stores its one offset under each of its topics.
WishMaps ==
    {[reTopic \in d |-> offset] : d \in SUBSET WishKeys, offset \in Offsets}

\* AssignPartitions, lines 66-75: the directConsumer after the options ran.
InitDirect ==
    /\ topics \in WishMaps
    /\ partitions \in PinMaps
    /\ regexTopics \in BOOLEAN
    \* lines 76-79: with no wish and no pin there is no direct consumer
    /\ ~(DOMAIN topics = {} /\ DOMAIN partitions = {})
    /\ reTopics = EmptyMap
    /\ reIgnore = {}
    /\ using = EmptyMap
    /\ lastTopics = EmptyMap
    /\ lastRet = NilRet
    /\ offered = {}
    /\ reoffered = {}
    /\ tests = [topic \in TopicNames |-> 0]
    /\ prevUsing = EmptyMap
    /\ repeated = FALSE

(***************************************************************************)
(* uint32 arithmetic.  A uint32 is held as its four bytes, least           *)
(* significant first, so that no intermediate value leaves the 32-bit      *)
(* signed integers of TLC.                                                 *)
(***************************************************************************)
RECURSIVE XorNat(_, _)
\* Bitwise exclusive or of two naturals.
XorNat(a, b) ==
    IF a = 0 THEN b
    ELSE IF b = 0 THEN a
    ELSE (((a % 2) + (b % 2)) % 2) + 2 * XorNat(a \div 2, b \div 2)

\* The uint32 of a natural below 2^31.
U32(v) == <<v % 256, (v \div 256) % 256, (v \div 65536) % 256, (v \div 16777216) % 256>>

\* a ^ b on uint32.
Xor32(a, b) ==
    <<XorNat(a[1], b[1]), XorNat(a[2], b[2]), XorNat(a[3], b[3]), XorNat(a[4], b[4])>>

\* a * b on uint32 (wraps modulo 2^32).
Mul32(a, b) ==
    LET c1 == a[1] * b[1]
        c2 == a[1] * b[2] + a[2] * b[1] + c1 \div 256
        c3 == a[1] * b[3] + a[2] * b[2] + a[3] * b[1] + c2 \div 256
        c4 == a[1] * b[4] + a[2] * b[3] + a[3] * b[2] + a[4] * b[1] + c3 \div 256
    IN  <<c1 % 256, c2 % 256, c3 % 256, c4 % 256>>

\* a >> k on uint32, for the shifts 8 <= k < 32.
Shr32(a, k) == U32((a[2] + 256 * a[3] + 65536 * a[4]) \div (2 ^ (k - 8)))

(***************************************************************************)
(* murmur2, lines 293-326.                                                 *)
(***************************************************************************)
Murmur2Seed == <<140, 178, 71, 151>>    \* 0x9747b28c
Murmur2M == <<149, 233, 209, 91>>       \* 0x5bd1e995

\* Lines 300-309: one round per group of four bytes.
RECURSIVE Murmur2Rounds(_, _)
Murmur2Rounds(h, b) ==
    IF Len(b) >= 4
    THEN LET k0 == <<b[1], b[2], b[3], b[4]>>
             k1 == Mul32(k0, Murmur2M)
             k2 == Xor32(k1, Shr32(k1, 24))
             k3 == Mul32(k2, Murmur2M)
         IN  Murmur2Rounds(Xor32(Mul32(h, Murmur2M), k3), SubSeq(b, 5, Len(b)))
    ELSE [h |-> h, b |-> b]

\* Lines 310-320: the switch on the remaining bytes.
Murmur2Tail(h, b) ==
    LET h3 == IF Len(b) = 3 THEN Xor32(h, <<0, 0, b[3], 0>>) ELSE h
        h2 == IF Len(b) >= 2 THEN Xor32(h3, <<0, b[2], 0, 0>>) ELSE h3
    IN  IF Len(b) >= 1 THEN Mul32(Xor32(h2, <<b[1], 0, 0, 0>>), Murmur2M) ELSE h2

murmur2(b) ==
    LET r == Murmur2Rounds(Xor32(Murmur2Seed, U32(Len(b))), b)
        h0 == Murmur2Tail(r.h, r.b)
        h1 == Xor32(h0, Shr32(h0, 13))
        h2 == Mul32(h1, Murmur2M)
    IN  Xor32(h2, Shr32(h2, 15))

\* h % n for the uint32 h taken as a non-negative integer, as Go computes
\* int(h) % n when int has 64 bits.
UMod32(h, n) ==
    ((((((h[4] % n) * 256 + h[3]) % n) * 256 + h[2]) % n) * 256 + h[1]) % n

KafkaHasher_Unmasked(h, n) == UMod32(h, n)

\* KafkaHasher, lines 246-253: int(hashFn(key)&0x7fffffff) % n.
KafkaHasher(h, n) ==
    (h[1] + 256 * h[2] + 65536 * h[3] + 16777216 * (h[4] % 128)) % n

(***************************************************************************)
(* SaramaHasher, lines 257-265: p := int(hashFn(key)) % n, negated when    *)
(* negative.  With a 64-bit int the conversion of a uint32 is never        *)
(* negative.  With a 32-bit int a hash with the top bit set converts to    *)
(* h - 2^32, whose remainder (Go truncates toward zero) is                 *)
(* -((2^32 - h) % n).                                                      *)
(***************************************************************************)
SaramaHasher(h, n, bits) ==
    IF bits = 64 \/ h[4] < 128
    THEN UMod32(h, n)
    ELSE LET p == 0 - (((((65536 % n) * (65536 % n)) % n) + n - UMod32(h, n)) % n)
         IN  IF p < 0 THEN 0 - p ELSE p

\* The PartitionerHasher of a keyPartitioner applied to a key.
Hasher(hasher, key, n, bits) ==
    IF hasher = "kafka"
    THEN KafkaHasher(murmur2(key), n)
    ELSE SaramaHasher(murmur2(key), n, bits)

(***************************************************************************)
(* The sticky and the sticky-key topic partitioners, lines 176-286.        *)
(***************************************************************************)
\* A record key: nil, or a byte sequence (possibly empty).
NilKey == [nil |-> TRUE, bytes |-> <<>>]
Keys == {NilKey} \cup
        {[nil |-> FALSE, bytes |-> b] :
            b \in {<<>>, <<97>>, <<107, 101, 121>>, <<1, 2, 3, 4, 5>>}}

\* stickyTopicPartitioner.Partition that does not step off the previous pin.
StickyPartition_NoAdvance(p_lastPart, p_onPart, n, intn) ==
    IF p_onPart = -1 \/ p_onPart >= n THEN intn ELSE p_onPart

\* stickyTopicPartitioner.Partition that draws a partition on every call.
StickyPartition_NoPin(p_lastPart, p_onPart, n, intn) ==
    IF intn = p_lastPart THEN (intn + 1) % n ELSE intn

\* stickyTopicPartitioner.Partition, lines 206-214: the new onPart, which is
\* the index returned.  intn is the value of p.rng.Intn(n).
StickyPartition(p_lastPart, p_onPart, n, intn) ==
    IF p_onPart = -1 \/ p_onPart >= n
    THEN IF intn = p_lastPart THEN (intn + 1) % n ELSE intn
    ELSE p_onPart

\* IsKeyed that takes an empty key for no key.
IsKeyed_EmptyIsNil(kind, key) ==
    kind = "stickyKey" /\ ~key.nil /\ Len(key.bytes) > 0

\* The call takes the hashing path of stickyKeyTopicPartitioner.Partition
\* (line 282).
IsKeyed(kind, key) == kind = "stickyKey" /\ ~key.nil

\* stickyTopicPartitioner.OnNewBatch, line 204.
OnNewBatch ==
    /\ lastPart' = onPart
    /\ onPart' = -1
    /\ pOp' = "OnNewBatch"
    /\ prevOnPart' = onPart
    /\ prevLastPart' = lastPart
    /\ pPrevKeyed' = (pOp = "Partition" /\ IsKeyed(pKind, pKey))
    /\ prevBatches' = batchesSince
    /\ batchesSince' = IF batchesSince < MaxBatches THEN batchesSince + 1
                       ELSE batchesSince
    /\ pinBefore' = IF batchesSince = 0 THEN onPart ELSE pinBefore
    /\ UNCHANGED <<pKind, pKey, pN, pRet, pHasher, intBits, sameN>>
    /\ UNCHANGED <<directVars, restVars>>

\* stickyTopicPartitioner.Partition (lines 206-214) and
\* stickyKeyTopicPartitioner.Partition (lines 281-286).
Partition(key, n) ==
    /\ pOp' = "Partition"
    /\ pKey' = key
    /\ pN' = n
    /\ prevOnPart' = onPart
    /\ prevLastPart' = lastPart
    /\ pPrevKeyed' = (pOp = "Partition" /\ IsKeyed(pKind, pKey))
    /\ prevBatches' = batchesSince
    /\ sameN' = (sameN /\ (pRet = -1 \/ n = pN))
    /\ IF IsKeyed(pKind, key)
       THEN /\ pRet' = Hasher(pHasher, key.bytes, n, intBits)
            /\ UNCHANGED <<lastPart, onPart, batchesSince>>
       ELSE \E intn \in 0..(n - 1) :
                /\ onPart' = StickyPartition(lastPart, onPart, n, intn)
                /\ pRet' = onPart'
                /\ batchesSince' = 0
                /\ UNCHANGED lastPart
    /\ UNCHANGED <<pKind, pHasher, intBits, pinBefore>>
    /\ UNCHANGED <<directVars, restVars>>

PartitionRecord == \E key \in Keys, n \in 1..MaxN : Partition(key, n)

\* newStickyTopicPartitioner (lines 190-196), keyPartitioner.ForTopic (272).
InitPartitioner ==
    /\ pKind \in {"sticky", "stickyKey"}
    /\ pHasher \in {"kafka", "sarama"}
    /\ intBits \in {32, 64}
    /\ batchesSince = 0
    /\ prevBatches = 0
    /\ pinBefore = -1
    /\ sameN = TRUE
    /\ lastPart = -1
    /\ onPart = -1
    /\ pOp = "none"
    /\ pKey = NilKey
    /\ pN = 1
    /\ pRet = -1
    /\ prevOnPart = -1
    /\ prevLastPart = -1
    /\ pPrevKeyed = FALSE

\* No topic partitioner in use.
IdlePartitioner ==
    /\ pKind = "sticky"
    /\ pHasher = "kafka"
    /\ intBits = 64
    /\ batchesSince = 0
    /\ prevBatches = 0
    /\ pinBefore = -1
    /\ sameN = TRUE
    /\ lastPart = -1
    /\ onPart = -1
    /\ pOp = "none"
    /\ pKey = NilKey
    /\ pN = 1
    /\ pRet = -1
    /\ prevOnPart = -1
    /\ prevLastPart = -1
    /\ pPrevKeyed = FALSE

\* No direct consumer in use.
IdleDirect ==
    /\ topics = EmptyMap
    /\ partitions = EmptyMap
    /\ regexTopics = FALSE
    /\ reTopics = EmptyMap
    /\ reIgnore = {}
    /\ using = EmptyMap
    /\ lastTopics = EmptyMap
    /\ lastRet = NilRet
    /\ offered = {}
    /\ reoffered = {}
    /\ tests = [topic \in TopicNames |-> 0]
    /\ prevUsing = EmptyMap
    /\ repeated = FALSE

(***************************************************************************)
(* The backup callback, lines 54-64.  mapping holds the buffered count of  *)
(* each partition of the topic; Go slices are indexed from 0, sequences    *)
(* from 1.                                                                 *)
(***************************************************************************)
CountLists == UNION {[1..n -> 0..MaxBuffered] : n \in 1..MaxN}

\* The lpInput of one decision: the zero position and one entry for each
\* partition.
NewLpInput(counts) == [on |-> 0, mapping |-> counts]

NoPair == [panic |-> FALSE, on |-> 0, buffered |-> 0]

lpInput_next_Wraps(i) ==
    LET on == i.on % Len(i.mapping)
    IN  [panic |-> FALSE, on |-> on, buffered |-> i.mapping[on + 1],
         input |-> [i EXCEPT !.on = i.on + 1]]

\* lpInput.next, lines 59-64.  Indexing the slice past its end panics
\* before i.on is incremented.
lpInput_next(i) ==
    IF i.on >= Len(i.mapping)
    THEN [panic |-> TRUE, on |-> 0, buffered |-> 0, input |-> i]
    ELSE [panic |-> FALSE, on |-> i.on, buffered |-> i.mapping[i.on + 1],
          input |-> [i EXCEPT !.on = i.on + 1]]

\* The framework starts a decision over Len(counts) partitions.
NewDecision ==
    \E counts \in CountLists :
        /\ lpInput' = NewLpInput(counts)
        /\ lpOp' = "new"
        /\ lpCalls' = 0
        /\ lpRet' = NoPair
        /\ UNCHANGED <<directVars, partVars, lbVars, hvVars, encVars, ncVars>>

\* The strategy calls backupFn once.  A panic ends the decision.
backupFn ==
    /\ lpOp # "none"
    /\ ~lpRet.panic
    /\ LET r == lpInput_next(lpInput)
       IN  /\ lpInput' = r.input
           /\ lpOp' = "next"
           /\ lpCalls' = IF r.panic THEN lpCalls ELSE lpCalls + 1
           /\ lpRet' = [panic |-> r.panic, on |-> r.on, buffered |-> r.buffered]
    /\ UNCHANGED <<directVars, partVars, lbVars, hvVars, encVars, ncVars>>

IdleBackupFn ==
    /\ lpInput = NewLpInput(<<>>)
    /\ lpOp = "none"
    /\ lpCalls = 0
    /\ lpRet = NoPair

(***************************************************************************)
(* The least-backup topic partitioner, lines 148-174.                      *)
(***************************************************************************)

\* int64(math.MaxInt64), line 164: above every buffered count.
MaxInt64 == [max |-> TRUE, v |-> 0]

BackupLess_OrEqual(backup, leastBackup) ==
    leastBackup.max \/ backup <= leastBackup.v

\* backup < leastBackup, line 167.
BackupLess(backup, leastBackup) == leastBackup.max \/ backup < leastBackup.v

RECURSIVE LeastBackupScan(_, _, _, _, _)
\* The loop of lines 165-171.
LeastBackupScan(n, input, leastBackup, p_onPart, calls) ==
    IF n <= 0
    THEN [panic |-> FALSE, onPart |-> p_onPart, calls |-> calls]
    ELSE LET r == lpInput_next(input)
         IN  IF r.panic
             THEN [panic |-> TRUE, onPart |-> p_onPart, calls |-> calls]
             ELSE IF BackupLess(r.buffered, leastBackup)
                  THEN LeastBackupScan(n - 1, r.input,
                                       [max |-> FALSE, v |-> r.buffered],
                                       r.on, calls + 1)
                  ELSE LeastBackupScan(n - 1, r.input, leastBackup, p_onPart,
                                       calls + 1)

NeedsScan_Always(p_onPart, n) == TRUE

NeedsScan_OnlyUnpinned(p_onPart, n) == p_onPart = -1

\* Line 163.
NeedsScan(p_onPart, n) == p_onPart = -1 \/ p_onPart >= n

\* leastBackupTopicPartitioner.PartitionByBackup, lines 162-174, with the
\* callback of a decision over the n partitions whose counts are given.
PartitionByBackup(n, counts) ==
    LET r == IF NeedsScan(lbOnPart, n)
             THEN LeastBackupScan(n, NewLpInput(counts), MaxInt64, lbOnPart, 0)
             ELSE [panic |-> FALSE, onPart |-> lbOnPart, calls |-> 0]
    IN  /\ lbOnPart' = r.onPart
        /\ lbOp' = IF r.panic THEN "panic" ELSE "PartitionByBackup"
        /\ lbPrevOp' = lbOp
        /\ lbN' = n
        /\ lbCounts' = counts
        /\ lbRet' = IF r.panic THEN lbRet ELSE r.onPart
        /\ lbCalls' = r.calls
        /\ lbPrevOnPart' = lbOnPart
        /\ UNCHANGED <<directVars, partVars, lpVars, hvVars, encVars, ncVars>>

PartitionByBackupRecord ==
    \E counts \in CountLists : PartitionByBackup(Len(counts), counts)

\* leastBackupTopicPartitioner.OnNewBatch, line 158.
LeastBackupOnNewBatch ==
    /\ lbOnPart' = -1
    /\ lbOp' = "OnNewBatch"
    /\ lbPrevOp' = lbOp
    /\ lbPrevOnPart' = lbOnPart
    /\ UNCHANGED <<lbN, lbCounts, lbRet, lbCalls>>
    /\ UNCHANGED <<directVars, partVars, lpVars, hvVars, encVars, ncVars>>

\* newLeastBackupTopicPartitioner, lines 148-152.
InitLeastBackup ==
    /\ lbOnPart = -1
    /\ lbOp = "none"
    /\ lbPrevOp = "none"
    /\ lbN = 1
    /\ lbCounts = <<0>>
    /\ lbRet = -1
    /\ lbCalls = 0
    /\ lbPrevOnPart = -1

(***************************************************************************)
(* The hashers applied to the value of any hashFn, lines 244-265.          *)
(***************************************************************************)
LowBytes == {0, 1, 255}

\* On both sides of the sign bit.
TopBytes == {0, 127, 128, 255}

\* The uint32 values a hashFn returns, least significant byte first.
Hashes == {<<b1, b2, b3, b4>> : b1 \in LowBytes, b2 \in LowBytes,
                                b3 \in LowBytes, b4 \in TopBytes}

\* The PartitionerHasher returned by KafkaHasher(hashFn), called with a key
\* that hashFn maps to h.
KafkaHash ==
    \E h \in Hashes, n \in 1..MaxN :
        /\ hvOp' = "KafkaHasher"
        /\ hvHash' = h
        /\ hvN' = n
        /\ hvRet' = KafkaHasher(h, n)
        /\ UNCHANGED hvBits
        /\ UNCHANGED <<directVars, partVars, lbVars, lpVars, encVars, ncVars>>

\* The PartitionerHasher returned by SaramaHasher(hashFn), called with a key
\* that hashFn maps to h.
SaramaHash ==
    \E h \in Hashes, n \in 1..MaxN :
        /\ hvOp' = "SaramaHasher"
        /\ hvHash' = h
        /\ hvN' = n
        /\ hvRet' = SaramaHasher(h, n, hvBits)
        /\ UNCHANGED hvBits
        /\ UNCHANGED <<directVars, partVars, lbVars, lpVars, encVars, ncVars>>

\* Go's int has 32 or 64 bits, depending on the platform of the build.
InitHasher ==
    /\ hvBits \in {32, 64}
    /\ hvOp = "none"
    /\ hvHash = <<0, 0, 0, 0>>
    /\ hvN = 1
    /\ hvRet = 0

IdleHasher ==
    /\ hvBits = 64
    /\ hvOp = "none"
    /\ hvHash = <<0, 0, 0, 0>>
    /\ hvN = 1
    /\ hvRet = 0

(***************************************************************************)
(* The kbin appenders.  Fixed-width integers are big-endian two's          *)
(* complement; a varint is the zigzag value in groups of seven bits, low   *)
(* group first.  Values stay within 31 bits.                               *)
(***************************************************************************)
BigEndian32(v) ==
    <<v \div 16777216, (v \div 65536) % 256, (v \div 256) % 256, v % 256>>

NotBytes(b) == [i \in 1..Len(b) |-> 255 - b[i]]

AppendInt8(dst, v) == dst \o <<IF v >= 0 THEN v ELSE 256 + v>>

AppendInt16(dst, v) ==
    dst \o (IF v >= 0 THEN <<(v \div 256) % 256, v % 256>>
            ELSE <<255 - (((0 - v - 1) \div 256) % 256), 255 - ((0 - v - 1) % 256)>>)

AppendInt32(dst, v) ==
    dst \o (IF v >= 0 THEN BigEndian32(v) ELSE NotBytes(BigEndian32(0 - v - 1)))

AppendInt64(dst, v) ==
    IF v >= 0
    THEN AppendInt32(dst \o <<0, 0, 0, 0>>, v)
    ELSE AppendInt32(dst \o <<255, 255, 255, 255>>, v)

AppendArrayLen(dst, l) == AppendInt32(dst, l)

RECURSIVE AppendUvarint(_, _)
AppendUvarint(dst, u) ==
    IF u < 128
    THEN dst \o <<u>>
    ELSE AppendUvarint(dst \o <<128 + (u % 128)>>, u \div 128)

AppendVarint(dst, v) ==
    AppendUvarint(dst, IF v >= 0 THEN 2 * v ELSE 2 * (0 - v) - 1)

\* b is a nullable byte slice: [nil, bytes].
AppendVarintBytes(dst, b) ==
    IF b.nil
    THEN AppendVarint(dst, -1)
    ELSE AppendVarint(dst, Len(b.bytes)) \o b.bytes

\* A string is held as its bytes.
AppendVarintString(dst, str) == AppendVarint(dst, Len(str)) \o str

\* kbin.AppendIntN(dst[:at], v) for a dst longer than at: the bytes after
\* position at are overwritten in place.
WriteAt(dst, at, bytes) ==
    [i \in 1..Len(dst) |->
        IF i > at /\ i <= at + Len(bytes) THEN bytes[i - at] ELSE dst[i]]

(***************************************************************************)
(* crc32.MakeTable(crc32.Castagnoli) and crc32.Checksum, lines 10 and 117. *)
(* A uint32 is four bytes, least significant first.                        *)
(***************************************************************************)
Castagnoli == <<120, 59, 246, 130>>     \* 0x82f63b78

Shr1(c) ==
    <<(c[1] \div 2) + 128 * (c[2] % 2), (c[2] \div 2) + 128 * (c[3] % 2),
      (c[3] \div 2) + 128 * (c[4] % 2), c[4] \div 2>>

RECURSIVE MakeTableEntry(_, _)
MakeTableEntry(crc, k) ==
    IF k = 0
    THEN crc
    ELSE MakeTableEntry(IF crc[1] % 2 = 1
                        THEN Xor32(Shr1(crc), Castagnoli)
                        ELSE Shr1(crc), k - 1)

crc32c == [i \in 0..255 |-> MakeTableEntry(<<i, 0, 0, 0>>, 8)]

\* a ^ b on bytes, tabulated.
XorByte == [a \in 0..255 |-> [b \in 0..255 |-> XorNat(a, b)]]

\* One turn of the table-driven loop of crc32.Checksum:
\* crc = tab[byte(crc)^v] ^ (crc>>8).
ChecksumByte(crc, v) ==
    LET t == crc32c[XorByte[crc[1]][v]]
    IN  <<XorByte[t[1]][crc[2]], XorByte[t[2]][crc[3]],
          XorByte[t[3]][crc[4]], t[4]>>

RECURSIVE ChecksumUpdate(_, _, _)
\* The loop over data from index i on, eight bytes at each level of the
\* recursion while eight are left.  Len(crc) is read first so that every
\* level starts from a computed value.
ChecksumUpdate(crc, data, i) ==
    IF Len(crc) = 4 /\ i > Len(data)
    THEN crc
    ELSE IF i + 7 > Len(data)
         THEN ChecksumUpdate(ChecksumByte(crc, data[i]), data, i + 1)
         ELSE ChecksumUpdate(
                  ChecksumByte(ChecksumByte(ChecksumByte(ChecksumByte(
                  ChecksumByte(ChecksumByte(ChecksumByte(ChecksumByte(crc,
                      data[i]), data[i + 1]), data[i + 2]), data[i + 3]),
                      data[i + 4]), data[i + 5]), data[i + 6]), data[i + 7]),
                  data, i + 8)

\* crc32.Checksum(data, crc32c): the loop from ^0, inverted at the end.
Checksum(data) == NotBytes(ChecksumUpdate(<<255, 255, 255, 255>>, data, 1))

\* kbin.AppendInt32(dst[:at], int32(crc)): the most significant byte first.
WriteChecksum(dst, at, crc) == WriteAt(dst, at, <<crc[4], crc[3], crc[2], crc[1]>>)

(***************************************************************************)
(* The batch encoder, unnamed/part_000 lines 56-135.                       *)
(***************************************************************************)
NilBytes == [nil |-> TRUE, bytes |-> <<>>]

RECURSIVE AppendHeaders(_, _, _)
\* Lines 130-133.
AppendHeaders(dst, headers, i) ==
    IF i > Len(headers)
    THEN dst
    ELSE AppendHeaders(AppendVarintBytes(AppendVarintString(dst, headers[i].Key),
                                         headers[i].Value), headers, i + 1)

\* Lines 124-133: a record after its length field.
AppendFields(dst, pnr) ==
    LET d1 == AppendInt8(dst, 0)
        d2 == AppendVarint(d1, pnr.timestampDelta)
        d3 == AppendVarint(d2, pnr.offsetDelta)
        d4 == AppendVarintBytes(d3, pnr.Key)
        d5 == AppendVarintBytes(d4, pnr.Value)
        d6 == AppendVarint(d5, Len(pnr.Headers))
    IN  AppendHeaders(d6, pnr.Headers, 1)

\* promisedNumberedRecord.appendTo, lines 122-135.
promisedNumberedRecord_appendTo(dst, pnr) ==
    AppendFields(AppendVarint(dst, pnr.lengthField), pnr)

RECURSIVE AppendRecords(_, _, _)
\* Lines 89-91.
AppendRecords(dst, records, i) ==
    IF i > Len(records)
    THEN dst
    ELSE AppendRecords(promisedNumberedRecord_appendTo(dst, records[i]),
                       records, i + 1)

\* Lines 57-61: the outer length and the first offset.  Only called for a
\* batch with a record.
AppendToFirstOffset(dst, r) ==
    AppendInt64(AppendInt32(dst, r.wireLength - 4), 0)

\* Lines 63-68: the batch length, the leader epoch and the magic byte.
AppendToMagic(dst, r) ==
    LET batchLen == (r.wireLength - 4) - 8 - 4
        d1 == AppendInt32(AppendToFirstOffset(dst, r), batchLen)
        d2 == AppendInt32(d1, -1)
    IN  AppendInt8(d2, 2)

\* Line 71: the reserved crc.
AppendToCrc(dst, r) == AppendInt32(AppendToMagic(dst, r), 0)

\* Lines 73-87: from the attributes to the record count.
AppendToRecordCount(dst, r) ==
    LET d1 == AppendInt16(AppendToCrc(dst, r), r.attrs)
        d2 == AppendInt32(d1, Len(r.records) - 1)
        d3 == AppendInt64(d2, r.firstTimestamp)
        lastRecord == r.records[Len(r.records)]
        d4 == AppendInt64(d3, r.firstTimestamp + lastRecord.timestampDelta)
        d5 == AppendInt64(d4, -1)
        d6 == AppendInt16(d5, -1)
        d7 == AppendInt32(d6, -1)
    IN  AppendArrayLen(d7, Len(r.records))

RECURSIVE OrNat(_, _)
\* a | b for non-negative a and b.
OrNat(a, b) ==
    IF a = 0 THEN b
    ELSE IF b = 0 THEN a
    ELSE (IF (a % 2) + (b % 2) > 0 THEN 1 ELSE 0) + 2 * OrNat(a \div 2, b \div 2)

KeepCompressed_NotLonger(compressor, compressed, toCompress) ==
    /\ ~compressor.nil
    /\ ~compressed.nil
    /\ Len(compressed.bytes) <= Len(toCompress)

KeepCompressed_AnyOutput(compressor, compressed, toCompress) ==
    ~compressor.nil /\ ~compressed.nil

\* compressed != nil && len(compressed) < len(toCompress), lines 98-100,
\* inside if compressor != nil.
KeepCompressed(compressor, compressed, toCompress) ==
    /\ ~compressor.nil
    /\ ~compressed.nil
    /\ Len(compressed.bytes) < Len(toCompress)

PatchFields_OuterOnly(dst, nullableBytesLenAt, batchLenAt, attrsAt, r, compressor, savings) ==
    LET d1 == WriteAt(dst, nullableBytesLenAt,
                      AppendInt32(<<>>, r.wireLength - 4 - savings))
    IN  WriteAt(d1, attrsAt, AppendInt16(<<>>, OrNat(r.attrs, compressor.attrs)))

\* Lines 107-113: the fields already written are written again.
PatchFields(dst, nullableBytesLenAt, batchLenAt, attrsAt, r, compressor, savings) ==
    LET nullableBytesLen == (r.wireLength - 4) - savings
        batchLen == ((r.wireLength - 4) - 8 - 4) - savings
        attrs == OrNat(r.attrs, compressor.attrs)
        d1 == WriteAt(dst, nullableBytesLenAt, AppendInt32(<<>>, nullableBytesLen))
        d2 == WriteAt(d1, batchLenAt, AppendInt32(<<>>, batchLen))
    IN  WriteAt(d2, attrsAt, AppendInt16(<<>>, attrs))

ReplaceRegion_KeepsLength(dst, recordsAt, compressed) ==
    WriteAt(dst, recordsAt, compressed.bytes)

\* Lines 103-104: copy(dst[recordsAt:], compressed) and the cut to
\* recordsAt+len(compressed).
ReplaceRegion(dst, recordsAt, compressed) ==
    SubSeq(dst, 1, recordsAt) \o compressed.bytes

\* Lines 93-115 on the uncompressed encoding d.
CompressStep(d, dst, r, compressor, compressed) ==
    LET recordsAt == Len(AppendToRecordCount(dst, r))
        toCompress == SubSeq(d, recordsAt + 1, Len(d))
    IN  IF KeepCompressed(compressor, compressed, toCompress)
        THEN PatchFields(ReplaceRegion(d, recordsAt, compressed), Len(dst),
                         Len(AppendToFirstOffset(dst, r)),
                         Len(AppendToCrc(dst, r)), r, compressor,
                         Len(toCompress) - Len(compressed.bytes))
        ELSE d

\* Line 117 on d.
ChecksumStep(d, dst, r) ==
    LET crcStart == Len(AppendToMagic(dst, r))
    IN  WriteChecksum(d, crcStart, Checksum(SubSeq(d, crcStart + 4 + 1, Len(d))))

recordBatch_appendTo_ChecksumFirst(dst, r, compressor, compressed) ==
    LET d1 == AppendRecords(AppendToRecordCount(dst, r), r.records, 1)
    IN  CompressStep(ChecksumStep(d1, dst, r), dst, r, compressor, compressed)

\* recordBatch.appendTo, lines 56-120, for a batch with a record and the
\* given result of zipr.compress.
recordBatch_appendTo(dst, r, compressor, compressed) ==
    LET d1 == AppendRecords(AppendToRecordCount(dst, r), r.records, 1)
    IN  ChecksumStep(CompressStep(d1, dst, r, compressor, compressed), dst, r)

\* What a zipr can return for a region: nil after an error, or bytes that
\* are shorter than the region, as long, or longer.
Filler(l) == [i \in 1..l |-> 177]

CompressResults(toCompress) ==
    {NilBytes} \cup
    {[nil |-> FALSE, bytes |-> Filler(l)] :
        l \in {1, Len(toCompress) - 1, Len(toCompress), Len(toCompress) + 1}}

\* The record region of r before compression.
RecordRegion(r) == AppendRecords(<<>>, r.records, 1)

appendToCall_EmptyEncoded(dst, r, compressor, compressed) ==
    IF Len(r.records) = 0
    THEN LET d1 == AppendInt16(AppendToCrc(dst, r), r.attrs)
             d2 == AppendInt32(d1, Len(r.records) - 1)
             d3 == AppendInt64(AppendInt64(d2, r.firstTimestamp),
                               r.firstTimestamp)
             d4 == AppendInt32(AppendInt16(AppendInt64(d3, -1), -1), -1)
             d5 == AppendArrayLen(d4, Len(r.records))
         IN  [panic |-> FALSE, dst |-> ChecksumStep(d5, dst, r), r |-> r]
    ELSE [panic |-> FALSE,
          dst |-> recordBatch_appendTo(dst, r, compressor, compressed),
          r |-> r]

appendToCall_AttrsStored(dst, r, compressor, compressed) ==
    IF Len(r.records) = 0
    THEN [panic |-> TRUE, dst |-> dst, r |-> r]
    ELSE [panic |-> FALSE,
          dst |-> recordBatch_appendTo(dst, r, compressor, compressed),
          r |-> IF KeepCompressed(compressor, compressed, RecordRegion(r))
                THEN [r EXCEPT !.attrs = OrNat(r.attrs, compressor.attrs)]
                ELSE r]

\* A call r.appendTo(dst, compressor), lines 56-120: whether it panics, the
\* slice it returns, and the batch behind r when it is over.  Indexing the
\* last record of an empty batch panics at line 80, before anything is
\* returned.  The function assigns to its locals (attrs at line 74,
\* nullableBytesLen, batchLen, dst) and to no field of r.
appendToCall(dst, r, compressor, compressed) ==
    IF Len(r.records) = 0
    THEN [panic |-> TRUE, dst |-> dst, r |-> r]
    ELSE [panic |-> FALSE,
          dst |-> recordBatch_appendTo(dst, r, compressor, compressed),
          r |-> r]

\* One call of r.appendTo(dst, compressor).  The zipr is reached only with
\* a compressor and after line 80.
appendTo ==
    /\ eOp # "panic"
    /\ \E compressed \in CompressResults(RecordRegion(eBatch)) :
           /\ (eCompressor.nil \/ Len(eBatch.records) = 0)
                 => compressed = NilBytes
           /\ LET call == appendToCall(eDst, eBatch, eCompressor, compressed)
              IN  /\ eOp' = IF call.panic THEN "panic" ELSE "appendTo"
                  /\ eOut' = IF call.panic THEN eOut ELSE call.dst
                  /\ eBatch' = call.r
                  /\ eCompressed' = compressed
    /\ ePrevOp' = eOp
    /\ ePrevCompressed' = eCompressed
    /\ ePrevOut' = eOut
    /\ UNCHANGED <<eDst, eCompressor, eSealed>>
    /\ UNCHANGED <<directVars, partVars, lbVars, lpVars, hvVars, ncVars>>

(***************************************************************************)
(* Sealed batches.  The producer numbers the records, computes the length  *)
(* field of each and the wire length of the batch as records are           *)
(* buffered.                                                               *)
(***************************************************************************)
UserRecords ==
    { [Key |-> NilBytes, Value |-> NilBytes, Headers |-> <<>>],
      [Key |-> [nil |-> FALSE, bytes |-> <<>>],
       Value |-> [nil |-> FALSE, bytes |-> <<118, 97, 108>>],
       Headers |-> <<>>],
      [Key |-> [nil |-> FALSE, bytes |-> <<107>>],
       Value |-> [nil |-> FALSE, bytes |-> <<118>>],
       Headers |-> <<[Key |-> <<104>>, Value |-> [nil |-> FALSE, bytes |-> <<1, 2>>]]>>] }

\* The i-th record of a batch.
NumberedRecord(rec, i) ==
    LET n == [timestampDelta |-> 2 * (i - 1), offsetDelta |-> i - 1,
              Key |-> rec.Key, Value |-> rec.Value, Headers |-> rec.Headers]
    IN  [lengthField |-> Len(AppendFields(<<>>, n)),
         timestampDelta |-> n.timestampDelta, offsetDelta |-> n.offsetDelta,
         Key |-> rec.Key, Value |-> rec.Value, Headers |-> rec.Headers]

\* The bytes of a batch up to its records.
BatchOverhead == 4 + 8 + 4 + 4 + 1 + 4 + 2 + 4 + 8 + 8 + 8 + 2 + 4 + 4

\* appendTo takes the wire length as it finds it in the batch: off is what
\* the producer's count is wrong by.
SealedBatch(recs, attrs, firstTimestamp, off) ==
    LET records == [i \in 1..Len(recs) |-> NumberedRecord(recs[i], i)]
    IN  [records |-> records, attrs |-> attrs, firstTimestamp |-> firstTimestamp,
         wireLength |-> BatchOverhead + Len(AppendRecords(<<>>, records, 1)) + off]

RecordLists == UNION {[1..n -> UserRecords] : n \in 0..MaxRecords}

\* 0x10 is the transactional flag.
BatchAttrs == {0, 16}

WireLengthErrors == {0, 3}

SealedBatches == {SealedBatch(recs, attrs, 1000, off) :
                    recs \in RecordLists, attrs \in BatchAttrs,
                    off \in WireLengthErrors}

\* No compressor, or lz4 (3).
Compressors == {[nil |-> TRUE, attrs |-> 0], [nil |-> FALSE, attrs |-> 3]}

\* The caller's buffer: empty, or holding what AppendTo wrote before.
CallerBuffers == {<<>>, <<0, 0, 0, 7>>}

InitEncoder ==
    /\ eBatch \in SealedBatches
    /\ eDst \in CallerBuffers
    /\ eCompressor \in Compressors
    /\ eOp = "none"
    /\ eCompressed = NilBytes
    /\ eOut = <<>>
    /\ eSealed = eBatch
    /\ ePrevOp = "none"
    /\ ePrevCompressed = NilBytes
    /\ ePrevOut = <<>>

IdleEncoder ==
    /\ eBatch = SealedBatch(<<>>, 0, 0, 0)
    /\ eDst = <<>>
    /\ eCompressor = [nil |-> TRUE, attrs |-> 0]
    /\ eOp = "none"
    /\ eCompressed = NilBytes
    /\ eOut = <<>>
    /\ eSealed = eBatch
    /\ ePrevOp = "none"
    /\ ePrevCompressed = NilBytes
    /\ ePrevOut = <<>>

(***************************************************************************)
(* NewClient, config.go lines 47-135: the seed brokers.  A string is the   *)
(* sequence of its bytes: an ASCII byte is the string of its character, a  *)
(* byte from 0x80 on the string of its two hexadecimal digits.             *)
(***************************************************************************)
DecimalDigits == <<"0", "1", "2", "3", "4", "5", "6", "7", "8", "9">>

LowerLetters ==
    <<"a", "b", "c", "d", "e", "f", "g", "h", "i", "j", "k", "l", "m",
      "n", "o", "p", "q", "r", "s", "t", "u", "v", "w", "x", "y", "z">>

UpperLetters ==
    <<"A", "B", "C", "D", "E", "F", "G", "H", "I", "J", "K", "L", "M",
      "N", "O", "P", "Q", "R", "S", "T", "U", "V", "W", "X", "Y", "Z">>

IsDigit(c) == \E d \in 1..10 : DecimalDigits[d] = c

DigitValue(c) == (CHOOSE d \in 1..10 : DecimalDigits[d] = c) - 1

\* strings.IndexByte(s, c): the index of the first c, or -1.
IndexByte(s, c) ==
    IF \E i \in 1..Len(s) : s[i] = c
    THEN (CHOOSE i \in 1..Len(s) :
                s[i] = c /\ \A j \in 1..(i - 1) : s[j] # c) - 1
    ELSE -1

\* s[from:]: the slice expression panics when from is beyond the length.
SliceFrom(s, from) ==
    IF from > Len(s)
    THEN [panic |-> TRUE, s |-> <<>>]
    ELSE [panic |-> FALSE, s |-> SubSeq(s, from + 1, Len(s))]

RECURSIVE DecimalValue(_, _)
\* The value of a run of digits after the value v read so far.
DecimalValue(s, v) ==
    IF s = <<>> THEN v ELSE DecimalValue(Tail(s), 10 * v + DigitValue(s[1]))

\* strconv.Atoi(s): an optional sign and at least one digit, nothing else.
Atoi(s) ==
    LET signed == s # <<>> /\ s[1] \in {"+", "-"}
        digits == IF signed THEN Tail(s) ELSE s
    IN  IF digits = <<>> \/ \E i \in 1..Len(digits) : ~IsDigit(digits[i])
        THEN [err |-> TRUE, v |-> 0]
        ELSE [err |-> FALSE,
              v |-> IF signed /\ s[1] = "-"
                    THEN 0 - DecimalValue(digits, 0)
                    ELSE DecimalValue(digits, 0)]

RECURSIVE Itoa(_)
\* strconv.Itoa(v) for v >= 0.
Itoa(v) ==
    IF v < 10
    THEN <<DecimalDigits[v + 1]>>
    ELSE Append(Itoa(v \div 10), DecimalDigits[(v % 10) + 1])

RECURSIVE Split(_, _)
\* strings.Split(s, sep) for a separator of one byte.
Split(s, sep) ==
    LET at == IndexByte(s, sep)
    IN  IF at = -1
        THEN <<s>>
        ELSE <<SubSeq(s, 1, at)>> \o Split(SubSeq(s, at + 2, Len(s)), sep)

ToLowerByte(c) ==
    IF \E i \in 1..26 : UpperLetters[i] = c
    THEN LowerLetters[CHOOSE i \in 1..26 : UpperLetters[i] = c]
    ELSE c

\* The names of the bytes 0x80 to 0xff, in order.
HighBytes ==
    <<
      "80", "81", "82", "83", "84", "85", "86", "87",
      "88", "89", "8a", "8b", "8c", "8d", "8e", "8f",
      "90", "91", "92", "93", "94", "95", "96", "97",
      "98", "99", "9a", "9b", "9c", "9d", "9e", "9f",
      "a0", "a1", "a2", "a3", "a4", "a5", "a6", "a7",
      "a8", "a9", "aa", "ab", "ac", "ad", "ae", "af",
      "b0", "b1", "b2", "b3", "b4", "b5", "b6", "b7",
      "b8", "b9", "ba", "bb", "bc", "bd", "be", "bf",
      "c0", "c1", "c2", "c3", "c4", "c5", "c6", "c7",
      "c8", "c9", "ca", "cb", "cc", "cd", "ce", "cf",
      "d0", "d1", "d2", "d3", "d4", "d5", "d6", "d7",
      "d8", "d9", "da", "db", "dc", "dd", "de", "df",
      "e0", "e1", "e2", "e3", "e4", "e5", "e6", "e7",
      "e8", "e9", "ea", "eb", "ec", "ed", "ee", "ef",
      "f0", "f1", "f2", "f3", "f4", "f5", "f6", "f7",
      "f8", "f9", "fa", "fb", "fc", "fd", "fe", "ff"
    >>

IsHighByte(c) == \E i \in 1..128 : HighBytes[i] = c

\* The value of a byte from 0x80 on.
ByteValue(c) == 127 + (CHOOSE i \in 1..128 : HighBytes[i] = c)

\* utf8.DecodeRuneInString(s) for an s that starts with a byte from 0x80
\* on: the rune and its width.  A lead byte that is none, a missing or
\* wrong continuation byte, an overlong form, a surrogate and a value above
\* U+10FFFF give utf8.RuneError, U+FFFD, and width 1.
DecodeRune(s) ==
    LET b0 == ByteValue(s[1])
        second == IF b0 = 224 THEN <<160, 191>>
                  ELSE IF b0 = 237 THEN <<128, 159>>
                  ELSE IF b0 = 240 THEN <<144, 191>>
                  ELSE IF b0 = 244 THEN <<128, 143>>
                  ELSE <<128, 191>>
        ByteIn(k, lo, hi) == /\ Len(s) >= k
                             /\ IsHighByte(s[k])
                             /\ lo <= ByteValue(s[k])
                             /\ ByteValue(s[k]) <= hi
        Cont(k) == ByteValue(s[k]) - 128
    IN  IF /\ 194 <= b0 /\ b0 <= 223
           /\ ByteIn(2, 128, 191)
        THEN [rune |-> ((b0 - 192) * 64) + Cont(2), width |-> 2]
        ELSE IF /\ 224 <= b0 /\ b0 <= 239
                /\ ByteIn(2, second[1], second[2])
                /\ ByteIn(3, 128, 191)
        THEN [rune |-> ((b0 - 224) * 4096) + (Cont(2) * 64) + Cont(3),
              width |-> 3]
        ELSE IF /\ 240 <= b0 /\ b0 <= 244
                /\ ByteIn(2, second[1], second[2])
                /\ ByteIn(3, 128, 191)
                /\ ByteIn(4, 128, 191)
        THEN [rune |-> ((b0 - 240) * 262144) + (Cont(2) * 4096)
                        + (Cont(3) * 64) + Cont(4),
              width |-> 4]
        ELSE [rune |-> 65533, width |-> 1]

\* The runes from U+0080 on that have a lower case (Unicode 14.0), as
\* <<first, last, stride, delta>>: every stride-th rune from first to last
\* has the lower case delta further on.
CaseRanges ==
    <<
      <<192, 214, 1, 32>>, <<216, 222, 1, 32>>, <<256, 302, 2, 1>>,
      <<304, 304, 1, -199>>, <<306, 310, 2, 1>>, <<313, 327, 2, 1>>,
      <<330, 374, 2, 1>>, <<376, 376, 1, -121>>, <<377, 381, 2, 1>>,
      <<385, 385, 1, 210>>, <<386, 388, 2, 1>>, <<390, 390, 1, 206>>,
      <<391, 391, 1, 1>>, <<393, 394, 1, 205>>, <<395, 395, 1, 1>>,
      <<398, 398, 1, 79>>, <<399, 399, 1, 202>>, <<400, 400, 1, 203>>,
      <<401, 401, 1, 1>>, <<403, 403, 1, 205>>, <<404, 404, 1, 207>>,
      <<406, 406, 1, 211>>, <<407, 407, 1, 209>>, <<408, 408, 1, 1>>,
      <<412, 412, 1, 211>>, <<413, 413, 1, 213>>, <<415, 415, 1, 214>>,
      <<416, 420, 2, 1>>, <<422, 422, 1, 218>>, <<423, 423, 1, 1>>,
      <<425, 425, 1, 218>>, <<428, 428, 1, 1>>, <<430, 430, 1, 218>>,
      <<431, 431, 1, 1>>, <<433, 434, 1, 217>>, <<435, 437, 2, 1>>,
      <<439, 439, 1, 219>>, <<440, 440, 1, 1>>, <<444, 444, 1, 1>>,
      <<452, 452, 1, 2>>, <<453, 453, 1, 1>>, <<455, 455, 1, 2>>,
      <<456, 456, 1, 1>>, <<458, 458, 1, 2>>, <<459, 475, 2, 1>>,
      <<478, 494, 2, 1>>, <<497, 497, 1, 2>>, <<498, 500, 2, 1>>,
      <<502, 502, 1, -97>>, <<503, 503, 1, -56>>, <<504, 542, 2, 1>>,
      <<544, 544, 1, -130>>, <<546, 562, 2, 1>>, <<570, 570, 1, 10795>>,
      <<571, 571, 1, 1>>, <<573, 573, 1, -163>>, <<574, 574, 1, 10792>>,
      <<577, 577, 1, 1>>, <<579, 579, 1, -195>>, <<580, 580, 1, 69>>,
      <<581, 581, 1, 71>>, <<582, 590, 2, 1>>, <<880, 882, 2, 1>>,
      <<886, 886, 1, 1>>, <<895, 895, 1, 116>>, <<902, 902, 1, 38>>,
      <<904, 906, 1, 37>>, <<908, 908, 1, 64>>, <<910, 911, 1, 63>>,
      <<913, 929, 1, 32>>, <<931, 939, 1, 32>>, <<975, 975, 1, 8>>,
      <<984, 1006, 2, 1>>, <<1012, 1012, 1, -60>>, <<1015, 1015, 1, 1>>,
      <<1017, 1017, 1, -7>>, <<1018, 1018, 1, 1>>, <<1021, 1023, 1, -130>>,
      <<1024, 1039, 1, 80>>, <<1040, 1071, 1, 32>>, <<1120, 1152, 2, 1>>,
      <<1162, 1214, 2, 1>>, <<1216, 1216, 1, 15>>, <<1217, 1229, 2, 1>>,
      <<1232, 1326, 2, 1>>, <<1329, 1366, 1, 48>>, <<4256, 4293, 1, 7264>>,
      <<4295, 4295, 1, 7264>>, <<4301, 4301, 1, 7264>>, <<5024, 5103, 1, 38864>>,
      <<5104, 5109, 1, 8>>, <<7312, 7354, 1, -3008>>, <<7357, 7359, 1, -3008>>,
      <<7680, 7828, 2, 1>>, <<7838, 7838, 1, -7615>>, <<7840, 7934, 2, 1>>,
      <<7944, 7951, 1, -8>>, <<7960, 7965, 1, -8>>, <<7976, 7983, 1, -8>>,
      <<7992, 7999, 1, -8>>, <<8008, 8013, 1, -8>>, <<8025, 8031, 2, -8>>,
      <<8040, 8047, 1, -8>>, <<8072, 8079, 1, -8>>, <<8088, 8095, 1, -8>>,
      <<8104, 8111, 1, -8>>, <<8120, 8121, 1, -8>>, <<8122, 8123, 1, -74>>,
      <<8124, 8124, 1, -9>>, <<8136, 8139, 1, -86>>, <<8140, 8140, 1, -9>>,
      <<8152, 8153, 1, -8>>, <<8154, 8155, 1, -100>>, <<8168, 8169, 1, -8>>,
      <<8170, 8171, 1, -112>>, <<8172, 8172, 1, -7>>, <<8184, 8185, 1, -128>>,
      <<8186, 8187, 1, -126>>, <<8188, 8188, 1, -9>>, <<8486, 8486, 1, -7517>>,
      <<8490, 8490, 1, -8383>>, <<8491, 8491, 1, -8262>>, <<8498, 8498, 1, 28>>,
      <<8544, 8559, 1, 16>>, <<8579, 8579, 1, 1>>, <<9398, 9423, 1, 26>>,
      <<11264, 11311, 1, 48>>, <<11360, 11360, 1, 1>>, <<11362, 11362, 1, -10743>>,
      <<11363, 11363, 1, -3814>>, <<11364, 11364, 1, -10727>>, <<11367, 11371, 2, 1>>,
      <<11373, 11373, 1, -10780>>, <<11374, 11374, 1, -10749>>, <<11375, 11375, 1, -10783>>,
      <<11376, 11376, 1, -10782>>, <<11378, 11378, 1, 1>>, <<11381, 11381, 1, 1>>,
      <<11390, 11391, 1, -10815>>, <<11392, 11490, 2, 1>>, <<11499, 11501, 2, 1>>,
      <<11506, 11506, 1, 1>>, <<42560, 42604, 2, 1>>, <<42624, 42650, 2, 1>>,
      <<42786, 42798, 2, 1>>, <<42802, 42862, 2, 1>>, <<42873, 42875, 2, 1>>,
      <<42877, 42877, 1, -35332>>, <<42878, 42886, 2, 1>>, <<42891, 42891, 1, 1>>,
      <<42893, 42893, 1, -42280>>, <<42896, 42898, 2, 1>>, <<42902, 42920, 2, 1>>,
      <<42922, 42922, 1, -42308>>, <<42923, 42923, 1, -42319>>, <<42924, 42924, 1, -42315>>,
      <<42925, 42925, 1, -42305>>, <<42926, 42926, 1, -42308>>, <<42928, 42928, 1, -42258>>,
      <<42929, 42929, 1, -42282>>, <<42930, 42930, 1, -42261>>, <<42931, 42931, 1, 928>>,
      <<42932, 42946, 2, 1>>, <<42948, 42948, 1, -48>>, <<42949, 42949, 1, -42307>>,
      <<42950, 42950, 1, -35384>>, <<42951, 42953, 2, 1>>, <<42960, 42960, 1, 1>>,
      <<42966, 42968, 2, 1>>, <<42997, 42997, 1, 1>>, <<65313, 65338, 1, 32>>,
      <<66560, 66599, 1, 40>>, <<66736, 66771, 1, 40>>, <<66928, 66964, 2, 39>>,
      <<66929, 66938, 1, 39>>, <<66941, 66954, 1, 39>>, <<66957, 66962, 1, 39>>,
      <<66965, 66965, 1, 39>>, <<68736, 68786, 1, 64>>, <<71840, 71871, 1, 32>>,
      <<93760, 93791, 1, 32>>, <<125184, 125217, 1, 34>>
    >>

\* unicode.ToLower(r) for a rune from U+0080 on.
unicode_ToLower(r) ==
    LET InRange(i) == /\ CaseRanges[i][1] <= r
                      /\ r <= CaseRanges[i][2]
                      /\ (r - CaseRanges[i][1]) % CaseRanges[i][3] = 0
    IN  IF \E i \in 1..Len(CaseRanges) : InRange(i)
        THEN r + CaseRanges[CHOOSE i \in 1..Len(CaseRanges) : InRange(i)][4]
        ELSE r

\* The UTF-8 bytes of a rune.  A rune below U+0080 that is the lower case
\* of one from U+0080 on is a small letter (k of U+212A, i of U+0130).
EncodeRune(r) ==
    IF r < 128
    THEN <<LowerLetters[r - 96]>>
    ELSE IF r < 2048
    THEN <<HighBytes[(192 + (r \div 64)) - 127],
           HighBytes[(128 + (r % 64)) - 127]>>
    ELSE IF r < 65536
    THEN <<HighBytes[(224 + (r \div 4096)) - 127],
           HighBytes[(128 + ((r \div 64) % 64)) - 127],
           HighBytes[(128 + (r % 64)) - 127]>>
    ELSE <<HighBytes[(240 + (r \div 262144)) - 127],
           HighBytes[(128 + ((r \div 4096) % 64)) - 127],
           HighBytes[(128 + ((r \div 64) % 64)) - 127],
           HighBytes[(128 + (r % 64)) - 127]>>

RECURSIVE ToLower(_)
\* strings.ToLower(s): unicode.ToLower of each rune, written back in
\* UTF-8; a byte that starts no rune comes out as U+FFFD.
ToLower(s) ==
    IF s = <<>>
    THEN <<>>
    ELSE IF ~IsHighByte(s[1])
    THEN <<ToLowerByte(s[1])>> \o ToLower(Tail(s))
    ELSE LET d == DecodeRune(s)
         IN  EncodeRune(unicode_ToLower(d.rune))
                \o ToLower(SubSeq(s, d.width + 1, Len(s)))

\* The dotted quad of net.ParseIP: four fields and nothing else, each of
\* digits, at most 255, with no leading zero before another digit.
ParseIPv4(s) ==
    LET fields == Split(s, ".")
        IsIPv4Field(f) == /\ f # <<>>
                          /\ \A i \in 1..Len(f) : IsDigit(f[i])
                          /\ Len(f) <= 3
                          /\ DecimalValue(f, 0) <= 255
                          /\ Len(f) > 1 => f[1] # "0"
    IN  Len(fields) = 4 /\ \A i \in 1..4 : IsIPv4Field(fields[i])

RECURSIVE HexRun(_)
\* The number of hexadecimal digits s starts with.
HexRun(s) ==
    LET IsHexDigit(c) ==
            \/ IsDigit(c)
            \/ c \in {"a", "b", "c", "d", "e", "f", "A", "B", "C", "D", "E", "F"}
    IN  IF s = <<>> \/ ~IsHexDigit(s[1]) THEN 0 ELSE 1 + HexRun(Tail(s))

RECURSIVE IPv6Groups(_, _, _)
\* The loop over the groups of an IPv6 literal: a group is one to four
\* hexadecimal digits; a dotted quad may end the literal after 12 bytes or
\* after a "::"; groups are joined by one colon, once by "::".  At the end
\* nothing is left, and the address is short of 16 bytes exactly when a
\* "::" stands for the rest.
IPv6Groups(s, i, ellipsis) ==
    LET End(left, n, e) == left = <<>> /\ (IF n < 16 THEN e ELSE ~e)
    IN  IF i >= 16
        THEN End(s, i, ellipsis)
        ELSE LET c == HexRun(s)
                 rest == SubSeq(s, c + 1, Len(s))
             IN  IF c = 0 \/ c > 4
                 THEN FALSE
                 ELSE IF rest # <<>> /\ rest[1] = "."
                 THEN /\ (ellipsis \/ i = 12)
                      /\ i + 4 <= 16
                      /\ ParseIPv4(s)
                      /\ End(<<>>, i + 4, ellipsis)
                 ELSE IF rest = <<>>
                 THEN End(<<>>, i + 2, ellipsis)
                 ELSE IF rest[1] # ":" \/ Len(rest) = 1
                 THEN FALSE
                 ELSE IF rest[2] = ":"
                 THEN /\ ~ellipsis
                      /\ IF Len(rest) = 2
                         THEN End(<<>>, i + 2, TRUE)
                         ELSE IPv6Groups(SubSeq(rest, 3, Len(rest)), i + 2, TRUE)
                 ELSE IPv6Groups(Tail(rest), i + 2, ellipsis)

\* The IPv6 literal of net.ParseIP (no zone): a leading "::" first.
ParseIPv6(s) ==
    IF Len(s) >= 2 /\ s[1] = ":" /\ s[2] = ":"
    THEN IF Len(s) = 2
         THEN TRUE
         ELSE IPv6Groups(SubSeq(s, 3, Len(s)), 0, TRUE)
    ELSE IPv6Groups(s, 0, FALSE)

\* net.ParseIP(addr) != nil, line 84.  The first dot or colon of the string
\* decides between the dotted quad and the IPv6 literal; a string with
\* neither is no IP.
isAddr(addr) ==
    LET dot == IndexByte(addr, ".")
        colon == IndexByte(addr, ":")
    IN  IF dot = -1 /\ colon = -1
        THEN FALSE
        ELSE IF colon = -1 \/ (dot # -1 /\ dot < colon)
        THEN ParseIPv4(addr)
        ELSE ParseIPv6(addr)

\* [a-z0-9]+(?:-[a-z0-9]+)*: letters and digits in runs that single hyphens
\* join.
IsLabel(l) ==
    /\ l # <<>>
    /\ \A i \in 1..Len(l) :
            \/ IsDigit(l[i])
            \/ \E k \in 1..26 : LowerLetters[k] = l[i]
            \/ /\ l[i] = "-"
               /\ i > 1
               /\ i < Len(l)
               /\ l[i - 1] # "-"

\* domainRe.MatchString, line 40: a label and at least one dot-label.
domainRe_MatchString(s) ==
    LET labels == Split(s, ".")
    IN  Len(labels) >= 2 /\ \A i \in 1..Len(labels) : IsLabel(labels[i])

\* isDomain, lines 85-95.
isDomain(domain) ==
    /\ ~(Len(domain) < 3 \/ Len(domain) > 255)
    /\ \A i \in 1..Len(Split(domain, ".")) : Len(Split(domain, ".")[i]) <= 63
    /\ domainRe_MatchString(ToLower(domain))

\* net.JoinHostPort(host, port): a host with a colon goes in brackets.
JoinHostPort(host, port) ==
    IF IndexByte(host, ":") >= 0
    THEN <<"[">> \o host \o <<"]", ":">> \o port
    ELSE host \o <<":">> \o port

\* Lines 108-114 for the addr and the port of a seed broker.
CheckAddr(addr, port) ==
    IF ~isAddr(addr) /\ ~isDomain(addr)
    THEN [panic |-> FALSE, err |-> "neither an IP address nor a domain",
          seedAddr |-> <<>>]
    ELSE [panic |-> FALSE, err |-> "nil",
          seedAddr |-> JoinHostPort(addr, Itoa(port))]

\* The body of the loop, lines 99-114.  Line 103 cuts addr to addr[:colon]
\* and line 104 then slices the addr that was cut, not seedBroker, from
\* colon+1 on.
ParseSeedBroker(seedBroker) ==
    LET colon == IndexByte(seedBroker, ":")
    IN  IF colon > 0
        THEN LET addr == SubSeq(seedBroker, 1, colon)
                 port == SliceFrom(addr, colon + 1)
             IN  IF port.panic
                 THEN [panic |-> TRUE, err |-> "nil", seedAddr |-> <<>>]
                 ELSE IF Atoi(port.s).err
                 THEN [panic |-> FALSE, err |-> "unable to parse addr:port",
                       seedAddr |-> <<>>]
                 ELSE CheckAddr(addr, Atoi(port.s).v)
        ELSE CheckAddr(seedBroker, 9092)

RECURSIVE SeedLoop(_, _, _)
\* The loop of lines 98-115 from the i-th seed broker on; the call is over
\* at the first panic or error.
SeedLoop(brokers, i, seedAddrs) ==
    IF i > Len(brokers)
    THEN [panic |-> FALSE, err |-> "nil", seedAddrs |-> seedAddrs]
    ELSE LET r == ParseSeedBroker(brokers[i])
         IN  IF r.panic \/ r.err # "nil"
             THEN [panic |-> r.panic, err |-> r.err, seedAddrs |-> <<>>]
             ELSE SeedLoop(brokers, i + 1, Append(seedAddrs, r.seedAddr))

\* NewClient(seedBrokers) with no option: the defaults pass cfg.validate
\* (line 80), and the client gets one broker for each seed address, in
\* order (lines 129-133).
NewClient ==
    /\ ncOp = "none"
    /\ ncOp' = "NewClient"
    /\ ncRet' = SeedLoop(seedBrokers, 1, <<>>)
    /\ UNCHANGED seedBrokers
    /\ UNCHANGED <<directVars, partVars, lbVars, lpVars, hvVars, encVars>>

\* Hosts: a dotted quad, an IPv6 literal, three domains (one in capitals,
\* one written with U+212A KELVIN SIGN), a name with an underscore, a name
\* with U+00C9 and a single label.
SeedHosts ==
    { <<"1", "0", ".", "0", ".", "0", ".", "7">>,
      <<":", ":", "1">>,
      <<"k", ".", "i", "o">>,
      <<"K", "-", "1", ".", "I", "O">>,
      <<"e2", "84", "aa", ".", "i", "o">>,
      <<"k", "_", ".", "i", "o">>,
      <<"c3", "89", ".", "i", "o">>,
      <<"h", "o", "s", "t">> }

\* What follows the host: nothing, or a colon and a port.
SeedPorts ==
    { <<"9", "0", "9", "2">>, <<"8", "0">>, <<"x", "1">>, <<>> }

SeedBrokers ==
    SeedHosts \cup {host \o <<":">> \o port : host \in SeedHosts, port \in SeedPorts}

SeedBrokerLists == UNION {[1..n -> SeedBrokers] : n \in 0..MaxSeeds}

NoCall == [panic |-> FALSE, err |-> "nil", seedAddrs |-> <<>>]

InitNewClient ==
    /\ seedBrokers \in SeedBrokerLists
    /\ ncOp = "none"
    /\ ncRet = NoCall

IdleNewClient ==
    /\ seedBrokers = <<>>
    /\ ncOp = "none"
    /\ ncRet = NoCall

IdleRest ==
    /\ InitLeastBackup
    /\ IdleBackupFn
    /\ IdleHasher
    /\ IdleEncoder
    /\ IdleNewClient

\* The assignment engine.
Init == InitDirect /\ IdlePartitioner /\ IdleRest

Next == Reconcile

Spec == Init /\ [][Next]_vars

\* The topic partitioners.
InitPart == IdleDirect /\ InitPartitioner /\ IdleRest

NextPart == OnNewBatch \/ PartitionRecord

SpecPartitioner == InitPart /\ [][NextPart]_vars

\* The least-backup topic partitioner.
InitLB == IdleDirect /\ IdlePartitioner /\ IdleRest

NextLB == LeastBackupOnNewBatch \/ PartitionByBackupRecord

SpecLeastBackup == InitLB /\ [][NextLB]_vars

\* The topic partitioner of one topic.  ForTopic of the configured
\* Partitioner makes it (lines 142-145, 186-189 and 272): it is a sticky one
\* or a least-backup one, and all calls for the topic go to it.
StickyInUse == lbOp = "none"

\* No sticky topic partitioner was made for the topic.
LeastBackupInUse == IdlePartitioner

InitTopic == IdleDirect /\ InitPartitioner /\ IdleRest

NextTopic ==
    \/ StickyInUse /\ OnNewBatch
    \/ StickyInUse /\ PartitionRecord
    \/ LeastBackupInUse /\ LeastBackupOnNewBatch
    \/ LeastBackupInUse /\ PartitionByBackupRecord

SpecTopicPartitioner == InitTopic /\ [][NextTopic]_vars

\* NewClient.
InitNC ==
    /\ IdleDirect
    /\ IdlePartitioner
    /\ InitLeastBackup
    /\ IdleBackupFn
    /\ IdleHasher
    /\ IdleEncoder
    /\ InitNewClient

NextNC == NewClient

SpecNewClient == InitNC /\ [][NextNC]_vars

\* The backup callback in the hands of any strategy.
InitFn == IdleDirect /\ IdlePartitioner /\ IdleRest

NextFn == NewDecision \/ backupFn

SpecBackupFn == InitFn /\ [][NextFn]_vars

\* The hashers.
InitHash ==
    /\ IdleDirect
    /\ IdlePartitioner
    /\ InitLeastBackup
    /\ IdleBackupFn
    /\ InitHasher
    /\ IdleEncoder
    /\ IdleNewClient

NextHash == KafkaHash \/ SaramaHash

SpecHasher == InitHash /\ [][NextHash]_vars

\* The batch encoder.
InitEnc ==
    /\ IdleDirect
    /\ IdlePartitioner
    /\ InitLeastBackup
    /\ IdleBackupFn
    /\ IdleHasher
    /\ InitEncoder
    /\ IdleNewClient

NextEnc == appendTo

SpecEncoder == InitEnc /\ [][NextEnc]_vars

(***************************************************************************)
(* Properties of the assignment engine.                                    *)
(***************************************************************************)

\* The topic is wanted at topic level, as the last call saw it: a wish names
\* it (direct mode), or it is a memoized match (regex mode; the call memoizes
\* every topic it lists).
WantedTopic(topic) ==
    IF regexTopics THEN topic \in DOMAIN reTopics ELSE topic \in DOMAIN topics

\* The topic-level offset of a wanted topic.
TopicOffset(topic) ==
    IF regexTopics THEN reTopics[topic] ELSE topics[topic]

\* The last call returned the pair.
Returned(topic, partition) ==
    /\ ~lastRet.nil
    /\ topic \in DOMAIN lastRet.m
    /\ partition \in DOMAIN lastRet.m[topic]

\* C1: no (topic, partition) pair is in the deltas returned by two different
\* calls, whatever the topologies were (topics and partitions may disappear
\* and reappear).
C1_NeverReoffered == reoffered = {}

\* C1 witness: a pair that an earlier call returned is visible to the last
\* call, and the last call returned other pairs but not this one.
C1_Witness ==
    \E pair \in offered :
        /\ pair[1] \in DOMAIN lastTopics
        /\ pair[2] \in lastTopics[pair[1]]
        /\ ~Returned(pair[1], pair[2])
        /\ PairsOf(lastRet.m) # {}

\* C2: whenever the topology lists, for a wanted topic, a partition that is
\* not yet in the Using Set, the delta returned by that call contains it.
C2_NewPartitionOffered ==
    \A topic \in DOMAIN lastTopics :
        WantedTopic(topic) =>
            \A partition \in lastTopics[topic] :
                <<topic, partition>> \notin PairsIn(prevUsing)
                    => Returned(topic, partition)

\* C3: the Using Set only grows: every pair in it before a call is in it
\* after the call, and so is every topic entry.
C3_UsingOnlyGrows ==
    /\ DOMAIN prevUsing \subseteq DOMAIN using
    /\ PairsIn(prevUsing) \subseteq PairsIn(using)

\* C3 witness: a call that found pairs in the Using Set and changed it.
C3_Witness ==
    /\ PairsIn(prevUsing) # {}
    /\ PairsIn(using) # PairsIn(prevUsing)

\* C4: a call that gets the topology of the call before it, after that call
\* returned a delta, returns no (topic, partition) pair.
C4_SameTopologyOffersNothing == repeated => PairsOf(lastRet.m) = {}

\* C4 witness: such a repeated call, on a topology with visible partitions
\* that are in use.
C4_Witness ==
    /\ repeated
    /\ \E topic \in DOMAIN lastTopics :
            /\ lastTopics[topic] # {}
            /\ topic \in DOMAIN using
            /\ lastTopics[topic] \subseteq using[topic]

\* C5: every non-nil delta contains at least one pair and maps no topic to an
\* empty partition map (when nothing remains staged the result is nil).
C5_NilWhenNothingStaged ==
    ~lastRet.nil =>
        /\ PairsOf(lastRet.m) # {}
        /\ \A topic \in DOMAIN lastRet.m : DOMAIN lastRet.m[topic] # {}

\* C6: in every returned delta a pinned partition is offered at its pinned
\* offset, and every other offered partition belongs to a wanted topic and
\* is offered at the topic-level offset.
C6_PinOverridesTopicOffset ==
    \A topic \in DOMAIN lastRet.m :
        \A partition \in DOMAIN lastRet.m[topic] :
            IF partition \in DOMAIN PinsOf(partitions, topic)
            THEN lastRet.m[topic][partition] = partitions[topic][partition]
            ELSE /\ WantedTopic(topic)
                 /\ lastRet.m[topic][partition] = TopicOffset(topic)

\* C6 witness: a delta with a pinned partition whose pin differs from the
\* topic-level offset, next to a sibling offered at the topic-level offset.
C6_Witness ==
    \E topic \in DOMAIN lastRet.m :
        /\ WantedTopic(topic)
        /\ \E pinned \in DOMAIN PinsOf(partitions, topic) :
                /\ pinned \in DOMAIN lastRet.m[topic]
                /\ partitions[topic][pinned] # TopicOffset(topic)
        /\ \E sibling \in DOMAIN lastRet.m[topic] :
                sibling \notin DOMAIN PinsOf(partitions, topic)

\* The topic is not wanted at topic level: no wish names it (direct mode),
\* no pattern matches it (regex mode).
UnwantedTopic(topic) ==
    IF regexTopics
    THEN \A reTopic \in DOMAIN topics : ~MatchString(reTopic, topic)
    ELSE topic \notin DOMAIN topics

\* C7: for a topic of the topology that is not wanted at topic level and has
\* pins, the first call that stages it returns exactly its pinned partitions,
\* each at its pinned offset.
C7_UnwantedTopicStagesOnlyPins ==
    \A topic \in DOMAIN lastTopics :
        ( /\ UnwantedTopic(topic)
          /\ DOMAIN PinsOf(partitions, topic) # {}
          /\ topic \notin DOMAIN prevUsing )
        => /\ ~lastRet.nil
           /\ topic \in DOMAIN lastRet.m
           /\ lastRet.m[topic] = partitions[topic]

\* C7 witness: such a call in regex mode with a pattern list that the topic
\* fails, the topic having a visible partition that is not pinned.
C7_Witness ==
    \E topic \in DOMAIN lastTopics :
        /\ UnwantedTopic(topic)
        /\ regexTopics
        /\ DOMAIN topics # {}
        /\ DOMAIN PinsOf(partitions, topic) # {}
        /\ topic \notin DOMAIN prevUsing
        /\ lastTopics[topic] \ DOMAIN PinsOf(partitions, topic) # {}
        /\ ~lastRet.nil

\* C8: in regex mode each topic name is run against the pattern list in at
\* most one call; the two caches never hold the same name, a memoized match
\* keeps its offset, and no cache entry is ever removed.
C8_TestedAtMostOnce ==
    /\ [](/\ \A topic \in TopicNames : tests[topic] <= 1
          /\ DOMAIN reTopics \cap reIgnore = {})
    /\ [][/\ reIgnore \subseteq reIgnore'
          /\ \A topic \in DOMAIN reTopics :
                /\ topic \in DOMAIN reTopics'
                /\ reTopics'[topic] = reTopics[topic]]_vars

\* C8 witness: a topic that failed a non-empty pattern list in an earlier
\* call is listed again by the last call, and has been tested once.
C8_Witness ==
    \E topic \in DOMAIN lastTopics :
        /\ regexTopics
        /\ DOMAIN topics # {}
        /\ topic \in reIgnore
        /\ topic \in DOMAIN prevUsing
        /\ tests[topic] = 1

\* The order in which the patterns were declared.
DeclaredOrder == <<"t", "ta", "b">>

\* The first pattern of d.topics, in declared order, that matches the topic.
FirstDeclaredMatch(topic) ==
    LET matching == {i \in 1..Len(DeclaredOrder) :
                        /\ DeclaredOrder[i] \in DOMAIN topics
                        /\ MatchString(DeclaredOrder[i], topic)}
    IN  DeclaredOrder[CHOOSE i \in matching : \A j \in matching : i <= j]

\* C9: in regex mode a resolved topic is matched by a pattern of d.topics,
\* and its offset is the offset of the first pattern, in declared order,
\* that matches it: the offset is a function of the configuration.
C9_FirstDeclaredPatternWins ==
    regexTopics =>
        \A topic \in DOMAIN reTopics :
            /\ \E reTopic \in DOMAIN topics : MatchString(reTopic, topic)
            /\ reTopics[topic] = topics[FirstDeclaredMatch(topic)]

\* C9 witness: a resolved topic that two patterns match, next to a pattern
\* that does not match it.
C9_Witness ==
    /\ regexTopics
    /\ \E topic \in DOMAIN reTopics :
            /\ \E p, q \in DOMAIN topics :
                    /\ p # q
                    /\ MatchString(p, topic) /\ MatchString(q, topic)
            /\ \E r \in DOMAIN topics : ~MatchString(r, topic)

(***************************************************************************)
(* Properties of the topic partitioners.                                   *)
(***************************************************************************)

\* The last call was a Partition that took the sticky path: any record on
\* the sticky partitioner, a keyless record on the sticky-key partitioner.
KeylessDecision == pOp = "Partition" /\ ~IsKeyed(pKind, pKey)

\* The last call was a Partition that took the hashing path.
KeyedDecision == pOp = "Partition" /\ IsKeyed(pKind, pKey)

\* C10: a keyless decision made while a partition is pinned, with n greater
\* than the pin, returns the pin and leaves it in place, so all such
\* decisions between two OnNewBatch calls return one index; a keyed decision
\* changes neither the pin nor the remembered previous pin; the pin changes
\* only by OnNewBatch or by a keyless decision that found no valid pin.
C10_PinnedDecisionReturnsPin ==
    /\ (KeylessDecision /\ prevOnPart # -1 /\ pN > prevOnPart)
            => (pRet = prevOnPart /\ onPart = prevOnPart /\ lastPart = prevLastPart)
    /\ KeyedDecision => (onPart = prevOnPart /\ lastPart = prevLastPart)
    /\ onPart # prevOnPart
            => \/ pOp = "OnNewBatch"
               \/ KeylessDecision /\ (prevOnPart = -1 \/ pN <= prevOnPart)

\* C10 witness: on the sticky-key partitioner, a keyless decision with n
\* greater than a pin other than 0 returns it, right after a keyed decision.
C10_Witness ==
    /\ pKind = "stickyKey"
    /\ KeylessDecision
    /\ pPrevKeyed
    /\ prevOnPart > 0
    /\ pN > prevOnPart
    /\ pRet = prevOnPart

\* C11 as stated: with one n throughout and n >= 2, the first keyless
\* decision after one or more OnNewBatch calls does not return the pin that
\* was held before those calls.
C11_NeverRepeatsPriorPin ==
    (KeylessDecision /\ sameN /\ pN >= 2 /\ prevBatches >= 1 /\ pinBefore # -1)
        => pRet # pinBefore

\* C11 amended: with n >= 2, the first keyless decision after exactly one
\* OnNewBatch call does not return the pin that was held before that call.
C11_NoRepeatAfterOneNewBatch ==
    (KeylessDecision /\ pN >= 2 /\ prevBatches = 1 /\ pinBefore # -1)
        => pRet # pinBefore

\* C11 witness: such a decision with one n throughout, the earlier pin being
\* an index the decision could have drawn.
C11_Witness ==
    /\ KeylessDecision
    /\ sameN
    /\ pN >= 2
    /\ prevBatches = 1
    /\ pinBefore # -1
    /\ pinBefore < pN
    /\ pRet = (pinBefore + 1) % pN

\* murmur2 of the keys of the model with the sign bit masked out, from the
\* reference implementation (Kafka's Utils.murmur2).
MaskedMurmur2Reference(b) ==
    CASE b = <<>> -> 275646681
      [] b = <<97>> -> 584102524
      [] b = <<107, 101, 121>> -> 1067546281
      [] b = <<1, 2, 3, 4, 5>> -> 963186390

\* C12: for a record with a non-nil key (an empty one included) the
\* sticky-key partitioner returns hasher(key, n), whatever the pin, and
\* changes no state; with the default hasher that is murmur2(key) with the
\* sign bit masked, modulo n.
C12_KeyedRecordIsHashed ==
    (pOp = "Partition" /\ pKind = "stickyKey" /\ ~pKey.nil)
        => /\ pRet = IF pHasher = "kafka"
                     THEN MaskedMurmur2Reference(pKey.bytes) % pN
                     ELSE SaramaHasher(murmur2(pKey.bytes), pN, intBits)
           /\ onPart = prevOnPart
           /\ lastPart = prevLastPart

\* C12 witness: an empty, non-nil key is hashed by the default hasher while
\* another partition is pinned.
C12_Witness ==
    /\ pOp = "Partition"
    /\ pKind = "stickyKey"
    /\ pHasher = "kafka"
    /\ ~pKey.nil
    /\ pKey.bytes = <<>>
    /\ onPart # -1
    /\ pRet # onPart

\* The least buffered count of the last decision.
LeastCount == CHOOSE c \in 0..MaxBuffered :
    /\ \E i \in 1..lbN : lbCounts[i] = c
    /\ \A i \in 1..lbN : lbCounts[i] >= c

\* The first partition, in scan order, with the least buffered count.
FirstLeast == CHOOSE p \in 0..(lbN - 1) :
    /\ lbCounts[p + 1] = LeastCount
    /\ \A q \in 0..(p - 1) : lbCounts[q + 1] # LeastCount

\* C13: an unpinned least-backup partitioner calls the backup callback
\* exactly n times and returns the first partition in scan order whose
\* buffered count is the minimum.
C13_UnpinnedPicksFirstLeast ==
    (lbOp = "PartitionByBackup" /\ lbPrevOnPart = -1)
        => /\ lbCalls = lbN
           /\ lbRet = FirstLeast
           /\ lbOnPart = FirstLeast

\* C13 witness: an unpinned decision over counts in which two partitions
\* share the minimum and a larger count comes first.
C13_Witness ==
    /\ lbOp = "PartitionByBackup"
    /\ lbPrevOnPart = -1
    /\ lbN >= 3
    /\ lbCounts[1] > lbCounts[2]
    /\ lbCounts[2] = lbCounts[3]
    /\ lbCounts[2] = LeastCount
    /\ lbRet = 1

\* C14: while partition p is pinned, a decision with n > p returns p without
\* calling the backup callback, whatever the counts; OnNewBatch clears the
\* pin, and the decision that follows it recomputes from the current counts.
C14_PinHeldUntilNewBatch ==
    /\ (lbOp = "PartitionByBackup" /\ lbPrevOnPart # -1 /\ lbN > lbPrevOnPart)
          => (lbRet = lbPrevOnPart /\ lbOnPart = lbPrevOnPart /\ lbCalls = 0)
    /\ lbOp = "OnNewBatch" => lbOnPart = -1
    /\ (lbOp = "PartitionByBackup" /\ lbPrevOp = "OnNewBatch")
          => (lbCalls = lbN /\ lbRet = FirstLeast)

\* C14 witness: the pin is returned although another partition now has
\* fewer buffered records.
C14_Witness ==
    /\ lbOp = "PartitionByBackup"
    /\ lbPrevOp = "PartitionByBackup"
    /\ lbPrevOnPart # -1
    /\ lbN > lbPrevOnPart
    /\ lbCounts[lbRet + 1] > LeastCount
    /\ lbCalls = 0

\* C15: in a decision over n partitions the k-th call of the backup
\* callback, k <= n, returns the pair of index k - 1, and a call after the
\* n-th panics and returns nothing.
C15_CallableAtMostNTimes ==
    /\ lpCalls <= Len(lpInput.mapping)
    /\ (lpOp = "next" /\ ~lpRet.panic)
          => /\ lpRet.on = lpCalls - 1
             /\ lpRet.buffered = lpInput.mapping[lpCalls]
    /\ (lpOp = "next" /\ lpRet.panic) => lpCalls = Len(lpInput.mapping)

\* C15 witness: the call after the n-th, n >= 2, has panicked.
C15_Witness ==
    /\ lpOp = "next"
    /\ lpRet.panic
    /\ lpCalls = Len(lpInput.mapping)
    /\ lpCalls >= 2

(***************************************************************************)
(* Properties of the hashers.                                              *)
(***************************************************************************)

\* The four bytes of 2^32 - 1 - h.
Complement32(h) == [i \in 1..4 |-> 255 - h[i]]

\* A uint32 below 2^31 as an integer.
Value31(h) == h[1] + 256 * h[2] + 65536 * h[3] + 16777216 * h[4]

\* |s % n| for s the hash read as a signed 32-bit integer, the remainder
\* truncating toward zero.  A hash with the top bit set is -(c + 1), c its
\* complement.
AbsSignedRemainder(h, n) ==
    IF h[4] < 128
    THEN Value31(h) % n
    ELSE ((Value31(Complement32(h)) % n) + 1) % n

\* C16: SaramaHasher returns the absolute value of the remainder by n of
\* the hash read as a signed 32-bit integer, which is in [0, n).
C16_SaramaIsAbsOfSignedRemainder ==
    hvOp = "SaramaHasher"
        => /\ hvRet = AbsSignedRemainder(hvHash, hvN)
           /\ hvRet \in 0..(hvN - 1)

\* int(h) & 0x7fffffff, modulo n: the sign bit masked after the conversion
\* to int.  A negative 32-bit int -(c + 1) with its sign bit cleared is
\* 2^31 - 1 - c.
MaskAfterConversion(h, n, bits) ==
    IF bits = 32 /\ h[4] >= 128
    THEN (2147483647 - Value31(Complement32(h))) % n
    ELSE Value31([h EXCEPT ![4] = IF h[4] >= 128 THEN h[4] - 128 ELSE h[4]]) % n

\* C17: KafkaHasher returns the hash with bit 31 cleared, modulo n, which
\* is in [0, n) and is what masking after the conversion to int gives.
C17_KafkaIsMaskedRemainder ==
    hvOp = "KafkaHasher"
        => /\ hvRet = MaskAfterConversion(hvHash, hvN, hvBits)
           /\ hvRet = UMod32([hvHash EXCEPT ![4] = hvHash[4] % 128], hvN)
           /\ hvRet \in 0..(hvN - 1)

\* C17 witness: a hash with the top bit set whose unmasked remainder
\* differs from the result.
C17_Witness ==
    /\ hvOp = "KafkaHasher"
    /\ hvHash[4] >= 128
    /\ hvN >= 2
    /\ hvRet # UMod32(hvHash, hvN)

(***************************************************************************)
(* Properties of the batch encoder.  The fields are read back from the     *)
(* returned bytes at the offsets of the wire format: outer length at 0,    *)
(* batch length at 12, checksum at 21, attributes at 25, last offset       *)
(* delta at 27, record count at 61, records at 65.                         *)
(***************************************************************************)

\* The entry that the last call appended.
Entry == SubSeq(eOut, Len(eDst) + 1, Len(eOut))

\* The big-endian signed 32-bit integer at an offset of the entry.
Int32At(off) ==
    LET b == SubSeq(Entry, off + 1, off + 4)
    IN  IF b[1] < 128
        THEN b[1] * 16777216 + b[2] * 65536 + b[3] * 256 + b[4]
        ELSE 0 - ((255 - b[1]) * 16777216 + (255 - b[2]) * 65536
                  + (255 - b[3]) * 256 + (255 - b[4])) - 1

\* The last call returned an entry.
Encoded == eOp = "appendTo"

\* The last call kept the compressed region.
KeptCompressed ==
    /\ Encoded
    /\ ~eCompressor.nil
    /\ ~eCompressed.nil
    /\ Len(eCompressed.bytes) < Len(RecordRegion(eBatch))

\* C18: in an entry of a batch of N >= 1 records, compressed or not, the
\* outer length is the batch length plus 12, the record count is N and the
\* last offset delta is N - 1.
C18_LengthAndCountFieldsAgree ==
    Encoded
        => /\ Int32At(0) = Int32At(12) + 12
           /\ Int32At(61) = Len(eBatch.records)
           /\ Int32At(27) = Len(eBatch.records) - 1

\* C18 witness: an entry of two records whose compressed region was kept.
C18_Witness ==
    /\ KeptCompressed
    /\ Len(eBatch.records) = 2
    /\ Int32At(61) = 2

\* The size of the entry of the batch when it is encoded without a
\* compressor.
UncompressedSize ==
    Len(recordBatch_appendTo(<<>>, eBatch, [nil |-> TRUE, attrs |-> 0], NilBytes))

\* The bytes the compressed region is shorter by.
Savings == Len(RecordRegion(eBatch)) - Len(eCompressed.bytes)

\* C19: when the wire length of the batch is the size of its uncompressed
\* encoding, the outer length and the batch length each count the bytes
\* that follow them in the returned entry; when the compressed region is
\* kept each is its uncompressed value less the bytes saved; the bytes that
\* were in the caller's buffer are unchanged.
C19_LengthFieldsCountWhatFollows ==
    (Encoded /\ eBatch.wireLength = UncompressedSize)
        => /\ Int32At(0) = Len(Entry) - 4
           /\ Int32At(12) = Len(Entry) - 16
           /\ SubSeq(eOut, 1, Len(eDst)) = eDst
           /\ KeptCompressed
                 => /\ Int32At(0) = (eBatch.wireLength - 4) - Savings
                    /\ Int32At(12) = (eBatch.wireLength - 16) - Savings
                    /\ Savings > 0

\* C19 witness: a compressed region was kept behind bytes the caller
\* already had in the buffer.
C19_Witness ==
    /\ KeptCompressed
    /\ eBatch.wireLength = UncompressedSize
    /\ eDst # <<>>
    /\ Savings > 1
    /\ Len(Entry) = UncompressedSize - Savings

\* C20: the checksum field holds the CRC-32C of the bytes that follow it in
\* the returned entry, whether or not the compressed region was kept.
C20_ChecksumCoversFinalBytes ==
    Encoded
        => LET crc == Checksum(SubSeq(Entry, 26, Len(Entry)))
           IN  SubSeq(Entry, 22, 25) = <<crc[4], crc[3], crc[2], crc[1]>>

\* C20 witness: the compressed region was kept and the attributes word
\* carries the codec, so the bytes under the checksum are not the ones
\* first written.
C20_Witness ==
    /\ KeptCompressed
    /\ SubSeq(Entry, 26, 27) # <<0, eBatch.attrs>>
    /\ SubSeq(Entry, 22, 25) # <<0, 0, 0, 0>>

\* The attributes word of the entry.
AttributesWord == Entry[26] * 256 + Entry[27]

\* The record region of the entry.
EntryRegion == SubSeq(Entry, 66, Len(Entry))

\* C21: the attributes word carries the codec (its low three bits) exactly
\* when the compressed region was kept, that is when a compressor is
\* configured and its output is non-nil and strictly shorter than the
\* uncompressed region; otherwise the region is the uncompressed encoding
\* and the word is the batch's own attributes.  A call on a batch with a
\* record returns an entry whatever the compressor did.
C21_CodecBitsIffCompressedKept ==
    /\ Encoded
          => /\ (AttributesWord % 8 # 0) <=> KeptCompressed
             /\ AttributesWord \div 8 = eBatch.attrs \div 8
             /\ KeptCompressed
                   => /\ AttributesWord % 8 = eCompressor.attrs
                      /\ EntryRegion = eCompressed.bytes
             /\ ~KeptCompressed
                   => /\ AttributesWord = eBatch.attrs
                      /\ EntryRegion = RecordRegion(eBatch)
    /\ eOp = "panic" => Len(eBatch.records) = 0

\* C21 witness: a configured compressor returned bytes as long as the
\* region, and the entry carries the uncompressed region and the flags of
\* the batch.
C21_Witness ==
    /\ Encoded
    /\ ~eCompressor.nil
    /\ ~eCompressed.nil
    /\ Len(eCompressed.bytes) = Len(RecordRegion(eBatch))
    /\ eBatch.attrs = 16
    /\ AttributesWord = 16

\* C22: with a compressor configured, whatever it returns, the entry is no
\* longer than the entry of the same batch encoded without a compressor.
C22_NeverLongerThanUncompressed ==
    (Encoded /\ ~eCompressor.nil) => Len(Entry) <= UncompressedSize

\* C22 witness: the compressor returned more bytes than it was given and
\* the entry has the uncompressed size.
C22_Witness ==
    /\ Encoded
    /\ ~eCompressor.nil
    /\ ~eCompressed.nil
    /\ Len(eCompressed.bytes) > Len(RecordRegion(eBatch))
    /\ Len(Entry) = UncompressedSize

\* C23: a call on a sealed batch with no record panics and returns nothing.
\* Every entry returned has a record count of at least one and a
\* non-negative last-offset-delta.
C23_EmptyBatchPanics ==
    /\ (Len(eSealed.records) = 0 /\ eOp # "none")
          => (eOp = "panic" /\ eOut = <<>>)
    /\ Encoded => (Int32At(61) >= 1 /\ Int32At(27) >= 0)

\* C23 witness: the call on an empty batch panicked.
C23_Witness ==
    /\ eOp = "panic"
    /\ Len(eSealed.records) = 0
    /\ eOut = <<>>

\* Two calls on the batch have returned.
EncodedTwice == eOp = "appendTo" /\ ePrevOp = "appendTo"

\* C24: a call leaves the sealed batch as it was, and two calls on the same
\* batch with the same compression outcome return the same bytes.
C24_BatchUnchangedAndRepeatable ==
    /\ eBatch = eSealed
    /\ (EncodedTwice /\ eCompressed = ePrevCompressed) => eOut = ePrevOut

\* C24 witness: the batch was encoded twice with a compressed region kept
\* both times, and the two entries are the same.
C24_Witness ==
    /\ EncodedTwice
    /\ KeptCompressed
    /\ eCompressed = ePrevCompressed
    /\ eBatch.attrs = 16
    /\ AttributesWord = 16 + eCompressor.attrs
    /\ eOut = ePrevOut

\* C25 as stated: every pair of a returned delta has its topic in the
\* supplied topology and its partition among the partitions visible for the
\* topic there, pinned partitions included.
C25_DeltaWithinTopology ==
    \A topic \in DOMAIN lastRet.m :
        /\ topic \in DOMAIN lastTopics
        /\ DOMAIN lastRet.m[topic] \subseteq lastTopics[topic]

\* C26: a call that returns nil leaves the using map as it was; a call that
\* returns a delta adds the topics and the pairs of the delta to the using
\* map and nothing else, and no pair of the delta was in the using map
\* before.  Without regex topics the two caches stay as they were made.
C26_UsingGrowsByTheDelta ==
    /\ lastRet.nil => using = prevUsing
    /\ ~lastRet.nil
          => /\ DOMAIN using = DOMAIN prevUsing \cup DOMAIN lastRet.m
             /\ PairsIn(using) = PairsIn(prevUsing) \cup PairsOf(lastRet.m)
             /\ PairsOf(lastRet.m) \cap PairsIn(prevUsing) = {}
    /\ ~regexTopics => (reTopics = EmptyMap /\ reIgnore = {})

\* C26 witness: without regex topics, a call looked a topic up and returned
\* a delta with a pair for it while other partitions of it were in use.
C26_Witness ==
    /\ ~regexTopics
    /\ ~lastRet.nil
    /\ \E topic \in DOMAIN lastRet.m :
            /\ topic \in DOMAIN topics
            /\ topic \in DOMAIN prevUsing
            /\ prevUsing[topic] # {}
            /\ DOMAIN lastRet.m[topic] # {}

\* C27: a decision of the sticky strategy and a decision of the least-backup
\* partitioner over n partitions return an index from 0 to n - 1, whatever
\* calls came before and whatever their n was.  A decision whose n is not
\* above the pin left by the decision before it does not return that pin:
\* the least-backup partitioner scans the n partitions again.
C27_IndexBelowN ==
    /\ KeylessDecision => (pRet >= 0 /\ pRet < pN /\ onPart = pRet)
    /\ (KeylessDecision /\ prevOnPart >= pN) => pRet # prevOnPart
    /\ lbOp = "PartitionByBackup"
          => (lbRet >= 0 /\ lbRet < lbN /\ lbOnPart = lbRet)
    /\ (lbOp = "PartitionByBackup" /\ lbPrevOnPart >= lbN)
          => (lbRet # lbPrevOnPart /\ lbCalls = lbN)

\* C27 witness: two least-backup decisions in a row, the second over so few
\* partitions that the pin of the first is none of them.
C27_Witness ==
    /\ lbOp = "PartitionByBackup"
    /\ lbPrevOp = "PartitionByBackup"
    /\ lbPrevOnPart >= lbN
    /\ lbN >= 2
    /\ lbRet < lbN

\* The hosts of the model that are an IPv4 address or a domain in ASCII.
GoodHosts ==
    { <<"1", "0", ".", "0", ".", "0", ".", "7">>,
      <<"k", ".", "i", "o">>,
      <<"K", "-", "1", ".", "I", "O">> }

\* The hosts of the model that are neither an IP address nor a domain.
BadHosts ==
    { <<"k", "_", ".", "i", "o">>,
      <<"c3", "89", ".", "i", "o">>,
      <<"h", "o", "s", "t">> }

\* The numeric ports of the model.
NumericPorts == { <<"9", "0", "9", "2">>, <<"8", "0">> }

\* The seed address a seed broker stands for: its host and its port, or its
\* host and port 9092 when it names none.
SeedAddrOf(seedBroker) ==
    IF seedBroker \in GoodHosts
    THEN seedBroker \o <<":", "9", "0", "9", "2">>
    ELSE seedBroker

\* A seed broker of a good host, with a numeric port or without a port.
GoodSeed(seedBroker) ==
    \/ seedBroker \in GoodHosts
    \/ \E host \in GoodHosts, port \in NumericPorts :
            seedBroker = host \o <<":">> \o port

\* A seed broker of a bad host, or of a good host with a port that is no
\* number.
BadSeed(seedBroker) ==
    \/ seedBroker \in BadHosts
    \/ \E host \in BadHosts, port \in SeedPorts :
            seedBroker = host \o <<":">> \o port
    \/ \E host \in GoodHosts, port \in SeedPorts \ NumericPorts :
            seedBroker = host \o <<":">> \o port

\* C28 as stated: NewClient never crashes; when every seed broker is a good
\* host with a numeric port or with no port it returns a client whose seed
\* addresses are those hosts with those ports, 9092 where none is given;
\* when the seed brokers are such or bad ones, and one is bad, it returns an
\* error.
C28_SeedBrokersParsed ==
    ncOp = "NewClient"
        => /\ ~ncRet.panic
           /\ (\A i \in 1..Len(seedBrokers) : GoodSeed(seedBrokers[i]))
                => /\ ncRet.err = "nil"
                   /\ ncRet.seedAddrs =
                        [i \in 1..Len(seedBrokers) |-> SeedAddrOf(seedBrokers[i])]
           /\ ( /\ \A i \in 1..Len(seedBrokers) :
                        GoodSeed(seedBrokers[i]) \/ BadSeed(seedBrokers[i])
                /\ \E i \in 1..Len(seedBrokers) : BadSeed(seedBrokers[i]) )
                => ncRet.err # "nil"
====
